---- MODULE Spec2Model ----
(***************************************************************************)
(* Kobo highlights importer: the highlight-to-note reconciliation engine   *)
(* (template renderer, duplicate detector, position resolver) and the      *)
(* import run that drives it.                                              *)
(*                                                                         *)
(* A JavaScript string is a sequence of characters; a character is a       *)
(* one-character TLA+ string ("mdash" and "middot" stand for the two       *)
(* non-ASCII characters of the default templates).                         *)
(***************************************************************************)
EXTENDS Integers, Sequences, FiniteSets, TLC

\* ------------------------------------------------------------------------
\* Characters and the String methods the code calls
\* ------------------------------------------------------------------------

\* \s of a JavaScript regular expression, within the model's alphabet
WhiteSpace == {" ", "\t", "\n"}

\* the characters "." does not match and "$" (flag m) stops at
LineTerminators == {"\n"}

Digits == {"0", "1", "2", "3", "4", "5", "6", "7", "8", "9"}

UpperCase ==
    <<"A","B","C","D","E","F","G","H","I","J","K","L","M",
      "N","O","P","Q","R","S","T","U","V","W","X","Y","Z">>

LowerCase ==
    <<"a","b","c","d","e","f","g","h","i","j","k","l","m",
      "n","o","p","q","r","s","t","u","v","w","x","y","z">>

Range(f) == {f[i] : i \in DOMAIN f}

\* \w of a JavaScript regular expression
WordChars == Range(UpperCase) \cup Range(LowerCase) \cup Digits \cup {"_"}

Min(S) == CHOOSE x \in S : \A y \in S : x <= y

Max(S) == CHOOSE x \in S : \A y \in S : x >= y

\* String.prototype.toLowerCase, one character
LowerChar(c) ==
    IF c \in Range(UpperCase)
    THEN LowerCase[CHOOSE i \in 1..26 : UpperCase[i] = c]
    ELSE c

toLowerCase(s) == [i \in 1..Len(s) |-> LowerChar(s[i])]

\* the pattern pat occurs in s at position i (1-based)
MatchAt(s, i, pat) ==
    /\ i >= 1
    /\ i + Len(pat) - 1 <= Len(s)
    /\ \A k \in 1..Len(pat) : s[i + k - 1] = pat[k]

\* the first position >= i of s whose character is not in class
\* (Len(s) + 1 when there is none): where a greedy class* stops
SkipClass(s, i, class) ==
    IF i > Len(s) THEN i ELSE
    Min({j \in i..(Len(s) + 1) : j = Len(s) + 1 \/ s[j] \notin class})

\* the first position >= i of s whose character is in class (Len(s) + 1 when
\* there is none)
FindClass(s, i, class) ==
    IF i > Len(s) THEN i ELSE
    Min({j \in i..(Len(s) + 1) : j = Len(s) + 1 \/ s[j] \in class})

\* String.prototype.indexOf from position i, 0 when pat does not occur
IndexOfFrom(s, pat, i) ==
    LET hits == {j \in i..Len(s) : MatchAt(s, j, pat)}
    IN  IF hits = {} THEN 0 ELSE Min(hits)

\* String.prototype.trim
trim(s) ==
    LET solid == {i \in 1..Len(s) : s[i] \notin WhiteSpace}
    IN  IF solid = {} THEN <<>> ELSE SubSeq(s, Min(solid), Max(solid))

\* String.prototype.substring(0, n)
substring0(s, n) == SubSeq(s, 1, IF Len(s) < n THEN Len(s) ELSE n)

\* String.prototype.replace(/\s+/g, ' '): every whitespace run becomes one space
CollapseWhiteSpace(s) ==
    LET idx  == [i \in 1..Len(s) |-> i]
        kept == SelectSeq(idx, LAMBDA i :
                    s[i] \notin WhiteSpace \/ i = 1 \/ s[i - 1] \notin WhiteSpace)
    IN  [k \in 1..Len(kept) |->
            IF s[kept[k]] \in WhiteSpace THEN " " ELSE s[kept[k]]]

\* String.prototype.replace(/\t/g, ' ')
TabsToSpaces(s) == [i \in 1..Len(s) |-> IF s[i] = "\t" THEN " " ELSE s[i]]

\* String.prototype.replace(/[ ]{2,}/g, ' '): runs of two or more spaces
CollapseSpaces(s) ==
    LET idx  == [i \in 1..Len(s) |-> i]
        kept == SelectSeq(idx, LAMBDA i : s[i] # " " \/ i = 1 \/ s[i - 1] # " ")
    IN  [k \in 1..Len(kept) |-> s[kept[k]]]

\* String(n) of a non-negative integer
RECURSIVE IntToStr(_)
IntToStr(n) ==
    LET d == <<"0","1","2","3","4","5","6","7","8","9">>[(n % 10) + 1]
    IN  IF n < 10 THEN <<d>> ELSE Append(IntToStr(n \div 10), d)

\* parseInt(digits, 10) of a sequence of decimal digits
RECURSIVE ParseInt(_)
ParseInt(ds) ==
    LET v(c) == CHOOSE k \in 0..9 : IntToStr(k) = <<c>>
    IN  IF ds = <<>> THEN 0
        ELSE 10 * ParseInt(SubSeq(ds, 1, Len(ds) - 1)) + v(ds[Len(ds)])

\* Array.prototype.join
RECURSIVE Join(_, _)
Join(parts, sep) ==
    IF parts = <<>> THEN <<>>
    ELSE IF Len(parts) = 1 THEN parts[1]
    ELSE parts[1] \o sep \o Join(Tail(parts), sep)

\* ------------------------------------------------------------------------
\* Template context values
\* ------------------------------------------------------------------------

\* a context value: a string, a number (v / den, den 1 for an integer),
\* null or undefined
Str(s) == [k |-> "str", v |-> s]

Num(n) == [k |-> "num", v |-> n, den |-> 1]

\* a fraction with one decimal digit, such as chapterProgress 0.5
Tenths(p) == [k |-> "num", v |-> p, den |-> 10]

Null == [k |-> "null"]

Undefined == [k |-> "undefined"]

\* a falsy test that lets the number 0 count as a value
Truthy_zeroShown(value) ==
    /\ value # Undefined
    /\ value # Null
    /\ value # Str(<<>>)

\* a JavaScript value that is not falsy: neither undefined, null, '' nor 0
Truthy(value) ==
    /\ value # Undefined
    /\ value # Null
    /\ value # Str(<<>>)
    /\ ~(value.k = "num" /\ value.v = 0)

\* a value that is an object or a function, with the text String() gives it
Obj(s) == [k |-> "obj", v |-> s]

\* String(f) of a built-in function
NativeFunction(name) ==
    <<"f","u","n","c","t","i","o","n"," ">> \o name \o <<"(",")"," ","{"," ","[","n","a","t","i","v","e"," ","c","o","d","e","]"," ","}">>

\* the methods every object inherits from Object.prototype
ObjectMethods ==
    {<<"t","o","S","t","r","i","n","g">>,
     <<"t","o","L","o","c","a","l","e","S","t","r","i","n","g">>,
     <<"v","a","l","u","e","O","f">>,
     <<"h","a","s","O","w","n","P","r","o","p","e","r","t","y">>,
     <<"i","s","P","r","o","t","o","t","y","p","e","O","f">>,
     <<"p","r","o","p","e","r","t","y","I","s","E","n","u","m","e","r","a","b","l","e">>}

\* context[varName] of an object literal: its own property, else the one it
\* inherits from Object.prototype, else undefined
Lookup(context, varName) ==
    IF varName \in DOMAIN context THEN context[varName]
    ELSE IF varName = <<"c","o","n","s","t","r","u","c","t","o","r">> THEN Obj(NativeFunction(<<"O","b","j","e","c","t">>))
    ELSE IF varName = <<"_","_","p","r","o","t","o","_","_">> THEN Obj(<<"[","o","b","j","e","c","t"," ","O","b","j","e","c","t","]">>)
    ELSE IF varName \in ObjectMethods THEN Obj(NativeFunction(varName))
    ELSE Undefined

\* String(value) of a string, a number, an object or a function
String(value) ==
    IF value.k # "num" THEN value.v
    ELSE IF value.v % value.den = 0 THEN IntToStr(value.v \div value.den)
    ELSE IntToStr(value.v \div value.den) \o <<".">> \o IntToStr(value.v % value.den)

\* ------------------------------------------------------------------------
\* Regular expressions: a pattern is a sequence of items, matched with
\* JavaScript's backtracking order (greedy items longest first, lazy items
\* shortest first, an optional group taken first)
\* ------------------------------------------------------------------------

\* a character class: set, or its complement when neg
Class(set) == [neg |-> FALSE, set |-> set]

NotClass(set) == [neg |-> TRUE, set |-> set]

InClass(c, class) == (c \in class.set) # class.neg

\* the items of a pattern
Lit(s) == [t |-> "lit", s |-> s]

Star(class) == [t |-> "rep", class |-> class, min |-> 0, lazy |-> FALSE]

Plus(class) == [t |-> "rep", class |-> class, min |-> 1, lazy |-> FALSE]

LazyStar(class) == [t |-> "rep", class |-> class, min |-> 0, lazy |-> TRUE]

Opt(pat) == [t |-> "opt", pat |-> pat]

Open(k) == [t |-> "open", k |-> k]

Close(k) == [t |-> "close", k |-> k]

Bol == [t |-> "bol"]

Eol == [t |-> "eol"]

\* the capture groups before a match: each undefined
NoGroups == [k \in 1..3 |-> [from |-> 0, text |-> Undefined]]

NoMatch == [ok |-> FALSE, at |-> 0, end |-> 0, groups |-> NoGroups]

\* the end of the longest run of class characters starting at i
RunEnd(s, i, class) ==
    Min({j \in i..(Len(s) + 1) : j = Len(s) + 1 \/ ~InClass(s[j], class)})

\* of the ends tried for a repetition, the one backtracking arrives at first
\* among those after which the rest of the pattern matched: the shortest for
\* a lazy repetition, the longest for a greedy one
FirstEnd(matched, lazy) ==
    IF matched = {} THEN NoMatch
    ELSE (CHOOSE r \in matched :
            \A q \in matched : IF lazy THEN r.j <= q.j ELSE r.j >= q.j).m

\* the pattern pat matched at position i of s: [ok, at, end (the position
\* after the match), groups]
RECURSIVE Exec(_, _, _, _), ElseExec(_, _, _, _, _)
Exec(s, i, pat, groups) ==
    IF pat = <<>> THEN [ok |-> TRUE, at |-> i, end |-> i, groups |-> groups]
    ELSE
      CASE Head(pat).t = "lit" ->
              IF MatchAt(s, i, Head(pat).s)
              THEN Exec(s, i + Len(Head(pat).s), Tail(pat), groups)
              ELSE NoMatch
        [] Head(pat).t = "rep" ->
              FirstEnd({r \in {[j |-> j, m |-> Exec(s, j, Tail(pat), groups)] :
                                  j \in (i + Head(pat).min)..RunEnd(s, i, Head(pat).class)} :
                          r.m.ok},
                       Head(pat).lazy)
        [] Head(pat).t = "opt" ->
              ElseExec(Exec(s, i, Head(pat).pat \o Tail(pat), groups),
                       s, i, Tail(pat), groups)
        [] Head(pat).t = "open" ->
              Exec(s, i, Tail(pat),
                   [groups EXCEPT ![Head(pat).k] = [from |-> i, text |-> Undefined]])
        [] Head(pat).t = "close" ->
              Exec(s, i, Tail(pat),
                   [groups EXCEPT ![Head(pat).k] =
                        [from |-> @.from, text |-> Str(SubSeq(s, @.from, i - 1))]])
        [] Head(pat).t = "bol" ->
              IF i = 1 \/ (i > 1 /\ s[i - 1] \in LineTerminators)
              THEN Exec(s, i, Tail(pat), groups) ELSE NoMatch
        [] Head(pat).t = "eol" ->
              IF i = Len(s) + 1 \/ (i <= Len(s) /\ s[i] \in LineTerminators)
              THEN Exec(s, i, Tail(pat), groups) ELSE NoMatch

\* the match m, or without one the pattern pat matched at i
ElseExec(m, s, i, pat, groups) ==
    IF m.ok THEN m ELSE Exec(s, i, pat, groups)

\* the match m, found at position at
MatchFound(at, m) == [ok |-> TRUE, at |-> at, end |-> m.end, groups |-> m.groups]

\* the leftmost match among the positions hits, where the pattern matches
Leftmost(s, pat, hits) ==
    IF hits = {} THEN NoMatch
    ELSE MatchFound(Min(hits), Exec(s, Min(hits), pat, NoGroups))

\* RegExp.prototype.exec of a global pattern whose lastIndex + 1 is from: the
\* leftmost match at or after from
RegExpExec(s, pat, from) ==
    Leftmost(s, pat, {p \in from..(Len(s) + 1) : Exec(s, p, pat, NoGroups).ok})

\* the successive matches of a global pattern, from the match m on
RECURSIVE MatchesFrom(_, _, _)
MatchesFrom(s, pat, m) ==
    IF ~m.ok THEN <<>>
    ELSE <<m>> \o MatchesFrom(s, pat, RegExpExec(s, pat, m.end))

\* every match of a global pattern in s, left to right
MatchAll(s, pat) == MatchesFrom(s, pat, RegExpExec(s, pat, 1))

\* String.prototype.replace(pattern, callback) of a global pattern: the text
\* of s from position from on, with the matches replaced by the values the
\* callback returned for them
RECURSIVE Splice(_, _, _, _)
Splice(s, from, matches, replacements) ==
    IF matches = <<>> THEN SubSeq(s, from, Len(s))
    ELSE SubSeq(s, from, Head(matches).at - 1) \o Head(replacements)
            \o Splice(s, Head(matches).end, Tail(matches), Tail(replacements))

\* ------------------------------------------------------------------------
\* Text processing and the duplicate-detection fingerprint
\* ------------------------------------------------------------------------

\* hashText keeps this many leading characters of the normalized text
HashPrefixLength == 50

\* extractExistingHighlights skips a blockquote whose text is no longer than this
ShortMatchLength == 10

\* normalizeText: '' for an absent text, else trim, tabs to spaces, collapse
\* runs of spaces (newlines are kept)
normalizeText(text) ==
    IF text = <<>> THEN <<>>
    ELSE CollapseSpaces(TabsToSpaces(trim(text)))

\* a fingerprint that keeps the letter case
hashText_caseSensitive(text) ==
    LET normalized == trim(CollapseWhiteSpace(text))
        prefix     == substring0(normalized, HashPrefixLength)
    IN  (IF Len(prefix) > 0 THEN prefix ELSE <<"e","m","p","t","y">>)
            \o <<"_">> \o IntToStr(Len(normalized))

\* hashText: first 50 characters of the lower-cased, whitespace-collapsed,
\* trimmed text (or 'empty'), '_', the normalized length
hashText(text) ==
    LET normalized == trim(CollapseWhiteSpace(toLowerCase(text)))
        prefix     == substring0(normalized, HashPrefixLength)
    IN  (IF Len(prefix) > 0 THEN prefix ELSE <<"e","m","p","t","y">>)
            \o <<"_">> \o IntToStr(Len(normalized))

\* quoteRegex: /^>\s*(.+)$/gm
quoteRegex ==
    <<Bol, Lit(<<">">>), Star(Class(WhiteSpace)),
      Open(1), Plus(NotClass(LineTerminators)), Close(1), Eol>>

\* the body of the while loop of extractExistingHighlights, for the trimmed
\* text of one match
QuoteHash(text) ==
    IF Len(text) > ShortMatchLength THEN {hashText(text)} ELSE {}

\* the loop of extractExistingHighlights from the match m on
RECURSIVE QuoteHashesFrom(_, _)
QuoteHashesFrom(content, m) ==
    IF ~m.ok THEN {}
    ELSE QuoteHash(trim(m.groups[1].text.v))
            \cup QuoteHashesFrom(content, RegExpExec(content, quoteRegex, m.end))

\* extractExistingHighlights: the fingerprints of the blockquote lines
extractExistingHighlights(content) ==
    QuoteHashesFrom(content, RegExpExec(content, quoteRegex, 1))

\* ------------------------------------------------------------------------
\* Date formatter (template-engine.ts)
\* ------------------------------------------------------------------------

months ==
    <<<<"J","a","n","u","a","r","y">>,
      <<"F","e","b","r","u","a","r","y">>,
      <<"M","a","r","c","h">>,
      <<"A","p","r","i","l">>,
      <<"M","a","y">>,
      <<"J","u","n","e">>,
      <<"J","u","l","y">>,
      <<"A","u","g","u","s","t">>,
      <<"S","e","p","t","e","m","b","e","r">>,
      <<"O","c","t","o","b","e","r">>,
      <<"N","o","v","e","m","b","e","r">>,
      <<"D","e","c","e","m","b","e","r">>>>

monthsIt ==
    <<<<"g","e","n","n","a","i","o">>,
      <<"f","e","b","b","r","a","i","o">>,
      <<"m","a","r","z","o">>,
      <<"a","p","r","i","l","e">>,
      <<"m","a","g","g","i","o">>,
      <<"g","i","u","g","n","o">>,
      <<"l","u","g","l","i","o">>,
      <<"a","g","o","s","t","o">>,
      <<"s","e","t","t","e","m","b","r","e">>,
      <<"o","t","t","o","b","r","e">>,
      <<"n","o","v","e","m","b","r","e">>,
      <<"d","i","c","e","m","b","r","e">>>>

days ==
    <<<<"S","u","n","d","a","y">>,
      <<"M","o","n","d","a","y">>,
      <<"T","u","e","s","d","a","y">>,
      <<"W","e","d","n","e","s","d","a","y">>,
      <<"T","h","u","r","s","d","a","y">>,
      <<"F","r","i","d","a","y">>,
      <<"S","a","t","u","r","d","a","y">>>>

\* the shape Date.prototype.toISOString writes: YYYY-MM-DDTHH:mm:ss.sssZ
IsIsoDate(s) ==
    /\ Len(s) = 24
    /\ \A i \in {1,2,3,4,6,7,9,10,12,13,15,16,18,19,21,22,23} : s[i] \in Digits
    /\ s[5] = "-" /\ s[8] = "-" /\ s[11] = "T" /\ s[14] = ":" /\ s[17] = ":"
    /\ s[20] = "." /\ s[24] = "Z"
    /\ ParseInt(SubSeq(s, 6, 7)) \in 1..12
    /\ ParseInt(SubSeq(s, 9, 10)) \in 1..31
    /\ ParseInt(SubSeq(s, 12, 13)) \in 0..23
    /\ ParseInt(SubSeq(s, 15, 16)) \in 0..59
    /\ ParseInt(SubSeq(s, 18, 19)) \in 0..59

\* new Date(dateStr) read through the local getters, the local zone being UTC
DateFields(s) ==
    LET y  == ParseInt(SubSeq(s, 1, 4))
        m  == ParseInt(SubSeq(s, 6, 7))
        d  == ParseInt(SubSeq(s, 9, 10))
        yy == IF m < 3 THEN y - 1 ELSE y
        t  == <<0, 3, 2, 5, 0, 3, 5, 1, 4, 6, 2, 4>>
    IN  [year |-> y, month |-> m - 1, date |-> d,
         hours |-> ParseInt(SubSeq(s, 12, 13)),
         minutes |-> ParseInt(SubSeq(s, 15, 16)),
         seconds |-> ParseInt(SubSeq(s, 18, 19)),
         day |-> (yy + (yy \div 4) - (yy \div 100) + (yy \div 400) + t[m] + d) % 7]

\* n.toString().padStart(2, '0')
pad(n) == IF n < 10 THEN <<"0">> \o IntToStr(n) ELSE IntToStr(n)

\* String.prototype.replace(pattern, replacement) with a string pattern: the
\* first occurrence only
ReplaceFirst(s, pat, rep) ==
    LET i == IndexOfFrom(s, pat, 1)
    IN  IF i = 0 THEN s
        ELSE SubSeq(s, 1, i - 1) \o rep \o SubSeq(s, i + Len(pat), Len(s))

\* a formatter that replaces the numeric month before the month names
formatDate_shortFirst(dateStr, format) ==
    IF dateStr = <<>> THEN <<>>
    ELSE IF ~IsIsoDate(dateStr) THEN dateStr
    ELSE
      LET date == DateFields(dateStr)
          r1 == ReplaceFirst(format, <<"Y","Y","Y","Y">>, IntToStr(date.year))
          r2 == ReplaceFirst(r1, <<"M","M">>, pad(date.month + 1))
          r3 == ReplaceFirst(r2, <<"M","M","M","M">>, monthsIt[date.month + 1])
          r4 == ReplaceFirst(r3, <<"M","M","M">>, SubSeq(months[date.month + 1], 1, 3))
          r5 == ReplaceFirst(r4, <<"d","d","d","d">>, days[date.day + 1])
          r6 == ReplaceFirst(r5, <<"D","D">>, pad(date.date))
          r7 == ReplaceFirst(r6, <<"H","H">>, pad(date.hours))
          r8 == ReplaceFirst(r7, <<"m","m">>, pad(date.minutes))
      IN  ReplaceFirst(r8, <<"s","s">>, pad(date.seconds))

\* formatDate(dateStr, format)
formatDate(dateStr, format) ==
    IF dateStr = <<>> THEN <<>>
    ELSE IF ~IsIsoDate(dateStr) THEN dateStr
    ELSE
      LET date == DateFields(dateStr)
          r1 == ReplaceFirst(format, <<"Y","Y","Y","Y">>, IntToStr(date.year))
          r2 == ReplaceFirst(r1, <<"M","M","M","M">>, monthsIt[date.month + 1])
          r3 == ReplaceFirst(r2, <<"M","M","M">>, SubSeq(months[date.month + 1], 1, 3))
          r4 == ReplaceFirst(r3, <<"M","M">>, pad(date.month + 1))
          r5 == ReplaceFirst(r4, <<"d","d","d","d">>, days[date.day + 1])
          r6 == ReplaceFirst(r5, <<"D","D">>, pad(date.date))
          r7 == ReplaceFirst(r6, <<"H","H">>, pad(date.hours))
          r8 == ReplaceFirst(r7, <<"m","m">>, pad(date.minutes))
      IN  ReplaceFirst(r8, <<"s","s">>, pad(date.seconds))

\* ------------------------------------------------------------------------
\* Template renderer (template-engine.ts)
\* ------------------------------------------------------------------------

\* conditionalRegex:
\* /\{%\s*if\s+(not\s+)?(\w+)\s*%\}([\s\S]*?)\{%\s*endif\s*%\}/g
conditionalRegex ==
    <<Lit(<<"{","%">>), Star(Class(WhiteSpace)), Lit(<<"i","f">>), Plus(Class(WhiteSpace)),
      Opt(<<Open(1), Lit(<<"n","o","t">>), Plus(Class(WhiteSpace)), Close(1)>>),
      Open(2), Plus(Class(WordChars)), Close(2), Star(Class(WhiteSpace)), Lit(<<"%","}">>),
      Open(3), LazyStar(NotClass({})), Close(3),
      Lit(<<"{","%">>), Star(Class(WhiteSpace)), Lit(<<"e","n","d","i","f">>), Star(Class(WhiteSpace)),
      Lit(<<"%","}">>)>>

\* the callback of processConditionals, for one value
ShownIf(value, negated, content) ==
    IF negated # Truthy(value) THEN content ELSE <<>>

\* result.replace(conditionalRegex, callback), given the matches; an optional
\* group taken and then abandoned by backtracking keeps no capture
ConditionalsReplaced(template, context, matches) ==
    Splice(template, 1, matches,
        [i \in DOMAIN matches |->
            ShownIf(Lookup(context, matches[i].groups[2].text.v),
                    matches[i].groups[1].text # Undefined,
                    matches[i].groups[3].text.v)])

\* processConditionals(template, context)
processConditionals(template, context) ==
    ConditionalsReplaced(template, context, MatchAll(template, conditionalRegex))

\* /\{\{(\w+)\|date\('([^']+)'\)\}\}/g
dateFilterRegex ==
    <<Lit(<<"{","{">>), Open(1), Plus(Class(WordChars)), Close(1), Lit(<<"|","d","a","t","e","(","'">>),
      Open(2), Plus(NotClass({"'"})), Close(2), Lit(<<"'",")","}","}">>)>>

\* /\{\{(\w+)\}\}/g
variableRegex ==
    <<Lit(<<"{","{">>), Open(1), Plus(Class(WordChars)), Close(1), Lit(<<"}","}">>)>>

\* the callback of the date-filter pass, for one value
DateFiltered(value, format) ==
    IF value = Undefined \/ value = Null THEN <<>>
    ELSE formatDate(String(value), format)

\* the callback of the variable pass, for one value
Substituted(value) ==
    IF value = Undefined \/ value = Null THEN <<>> ELSE String(value)

\* the date-filter pass of renderTemplate, given the matches
DatesReplaced(result, context, matches) ==
    Splice(result, 1, matches,
        [i \in DOMAIN matches |->
            DateFiltered(Lookup(context, matches[i].groups[1].text.v),
                         matches[i].groups[2].text.v)])

\* the variable pass of renderTemplate, given the matches
VariablesReplaced(result, context, matches) ==
    Splice(result, 1, matches,
        [i \in DOMAIN matches |->
            Substituted(Lookup(context, matches[i].groups[1].text.v))])

\* renderTemplate from the date-filter pass on
FilterPass(result, context) ==
    DatesReplaced(result, context, MatchAll(result, dateFilterRegex))

\* renderTemplate from the variable pass on
VariablePass(result, context) ==
    VariablesReplaced(result, context, MatchAll(result, variableRegex))

\* renderTemplate(template, context)
renderTemplate(template, context) ==
    VariablePass(FilterPass(processConditionals(template, context), context),
                 context)

\* ------------------------------------------------------------------------
\* Default templates and settings
\* ------------------------------------------------------------------------

\* DEFAULT_TEMPLATES.fileName
Default_fileName ==
    <<"{","{","t","i","t","l","e","}","}">>

\* DEFAULT_TEMPLATES.frontmatter
Default_frontmatter ==
    <<"-","-","-","\n","t","i","t","l","e",":"," ","\"","{","{","t","i","t","l","e","}","}",
      "\"","\n","a","u","t","h","o","r",":"," ","\"","{","{","a","u","t","h","o","r","}",
      "}","\"","\n","p","r","o","g","r","e","s","s",":"," ","{","{","p","r","o","g","r","e",
      "s","s","}","}","\n","{","%"," ","i","f"," ","p","a","g","e","s"," ","%","}","p","a",
      "g","e","s",":"," ","{","{","p","a","g","e","s","}","}","\n","{","%"," ","e","n","d",
      "i","f"," ","%","}","l","a","s","t","_","r","e","a","d",":"," ","\"","{","{","d","a",
      "t","e","_","l","a","s","t","_","r","e","a","d","}","}","\"","\n","s","o","u","r","c",
      "e",":"," ","k","o","b","o","\n","i","m","p","o","r","t","e","d",":"," ","\"","{","{",
      "d","a","t","e","}","}","\"","\n","-","-","-">>

\* DEFAULT_TEMPLATES.pageMetadata
Default_pageMetadata ==
    <<"#"," ","{","{","t","i","t","l","e","}","}","\n","\n","*","*","A","u","t","h","o","r",
      ":","*","*"," ","{","{","a","u","t","h","o","r","}","}","\n","{","%"," ","i","f"," ",
      "p","r","o","g","r","e","s","s"," ","%","}","*","*","P","r","o","g","r","e","s","s",
      ":","*","*"," ","{","{","p","r","o","g","r","e","s","s","}","}","%","{","%"," ","e",
      "n","d","i","f"," ","%","}","\n","\n","#","#"," ","H","i","g","h","l","i","g","h","t",
      "s">>

\* DEFAULT_TEMPLATES.highlight
Default_highlight ==
    <<">"," ","{","{","t","e","x","t","}","}","\n","\n","{","%"," ","i","f"," ","a","n","n",
      "o","t","a","t","i","o","n"," ","%","}","*","*","N","o","t","e",":","*","*"," ","{",
      "{","a","n","n","o","t","a","t","i","o","n","}","}","\n","\n","{","%"," ","e","n","d",
      "i","f"," ","%","}","*","mdash"," ","{","{","d","a","t","e","_","c","r","e","a","t",
      "e","d","|","d","a","t","e","(","'","D","D"," ","M","M","M","M"," ","Y","Y","Y","Y",
      "'",")","}","}","{","%"," ","i","f"," ","l","o","c","a","t","i","o","n"," ","%","}",
      " ","middot"," ","{","{","l","o","c","a","t","i","o","n","}","}","%","{","%"," ","e",
      "n","d","i","f"," ","%","}","*","\n","\n","-","-","-">>

\* DEFAULT_TEMPLATES.syncHeader
Default_syncHeader ==
    <<"\n","#","#"," ","N","e","w"," ","H","i","g","h","l","i","g","h","t","s"," ","(","{",
      "{","d","a","t","e","|","d","a","t","e","(","'","D","D"," ","M","M","M","M"," ","Y",
      "Y","Y","Y","'",")","}","}",")">>

\* DEFAULT_SETTINGS, with the append mode left to the caller
DefaultSettings(appendToExisting) ==
    [includeStoreBought   |-> TRUE,
     appendToExisting     |-> appendToExisting,
     fileNameTemplate     |-> Default_fileName,
     frontmatterTemplate  |-> Default_frontmatter,
     pageMetadataTemplate |-> Default_pageMetadata,
     highlightTemplate    |-> Default_highlight,
     syncHeaderTemplate   |-> Default_syncHeader]

\* ------------------------------------------------------------------------
\* Highlight aggregator (highlight-processor)
\* ------------------------------------------------------------------------

\* a || b
OrElse(a, b) == IF Truthy(a) THEN a ELSE b

\* parseKoboDate: the Date (held as its ISO string) or, for an absent or
\* invalid string, the current time
parseKoboDate(dateStr, now) ==
    IF Truthy(dateStr) /\ IsIsoDate(dateStr.v) THEN dateStr.v ELSE now

\* String.prototype.split('/'), last part
LastSegment(s) ==
    LET slashes == {i \in 1..Len(s) : s[i] = "/"}
    IN  IF slashes = {} THEN s ELSE SubSeq(s, Max(slashes) + 1, Len(s))

\* replace(/\.(epub|kepub|pdf|mobi)$/i, '')
StripBookExtension(filename) ==
    LET exts == {<<".","e","p","u","b">>, <<".","k","e","p","u","b">>, <<".","p","d","f">>, <<".","m","o","b","i">>}
        low  == toLowerCase(filename)
        hit  == {e \in exts : Len(low) >= Len(e)
                              /\ SubSeq(low, Len(low) - Len(e) + 1, Len(low)) = e}
    IN  IF hit = {} THEN filename
        ELSE SubSeq(filename, 1, Len(filename) - Len(CHOOSE e \in hit : TRUE))

\* URL.pathname of a file: URL: the part after file:// up to ? or #, with
\* spaces percent-encoded
RECURSIVE EncodeSpaces(_)
EncodeSpaces(s) ==
    IF s = <<>> THEN <<>>
    ELSE (IF Head(s) = " " THEN <<"%","2","0">> ELSE <<Head(s)>>)
            \o EncodeSpaces(Tail(s))

UrlPathname(volumeId) ==
    LET rest == SubSeq(volumeId, 8, Len(volumeId))
        stop == FindClass(rest, 1, {"?", "#"})
    IN  EncodeSpaces(SubSeq(rest, 1, stop - 1))

\* extractTitleFromPath: new URL(volumeId) succeeds for a file:// identifier
\* and throws for an identifier without a scheme
extractTitleFromPath(volumeId) ==
    LET path     == IF MatchAt(volumeId, 1, <<"f","i","l","e",":","/","/">>)
                    THEN UrlPathname(volumeId) ELSE volumeId
        filename == IF LastSegment(path) = <<>> THEN <<"U","n","k","n","o","w","n">>
                    ELSE LastSegment(path)
    IN  StripBookExtension(filename)

\* parseFloat of digits with up to two decimals, in hundredths
parseFloatHundredths(s) ==
    LET dot == FindClass(s, 1, {"."})
        int == ParseInt(SubSeq(s, 1, dot - 1))
        dec == SubSeq(s, dot + 1, Len(s))
    IN  100 * int + (IF Len(dec) = 0 THEN 0
                     ELSE IF Len(dec) = 1 THEN 10 * ParseInt(dec)
                     ELSE ParseInt(SubSeq(dec, 1, 2)))

\* Math.round of a non-negative number given in hundredths
RoundHundredths(h) == (h + 50) \div 100

\* buildContentIndex + Map.get: the last row with this ContentID, or null
ContentLookup(content, volumeId) ==
    LET rows == {i \in 1..Len(content) : content[i].ContentID = volumeId}
    IN  IF rows = {} THEN Null ELSE content[Max(rows)]

\* a loop that drops every row without text, annotated or not
RetainedRows_textOnly(bookmarks, now) ==
    LET text(b)    == normalizeText(OrElse(b.Text, Str(<<>>)).v)
        annot(b)   == OrElse(b.Annotation, Str(<<>>)).v
        keep       == SelectSeq(bookmarks, LAMBDA b : text(b) # <<>>)
    IN  [i \in 1..Len(keep) |->
            [VolumeID |-> keep[i].VolumeID,
             highlight |->
                [bookmarkId       |-> keep[i].BookmarkID,
                 text             |-> IF text(keep[i]) # <<>> THEN text(keep[i])
                                      ELSE <<"P","l","a","c","e","h","o","l","d","e","r"," ","f","o","r"," ","a","t","t","a","c","h","e","d"," ","a","n","n","o","t","a","t","i","o","n">>,
                 annotation       |-> annot(keep[i]),
                 createdAt        |-> parseKoboDate(
                                        OrElse(keep[i].DateCreated, keep[i].DateModified), now),
                 chapterProgress  |-> keep[i].ChapterProgress,
                 chapterContentId |-> keep[i].ContentID]]]

\* the loop over bookmarks of processHighlights: the retained rows, as
\* [VolumeID, highlight], in input order
RetainedRows(bookmarks, now) ==
    LET text(b)    == normalizeText(OrElse(b.Text, Str(<<>>)).v)
        annot(b)   == OrElse(b.Annotation, Str(<<>>)).v
        keep       == SelectSeq(bookmarks, LAMBDA b : text(b) # <<>> \/ annot(b) # <<>>)
    IN  [i \in 1..Len(keep) |->
            [VolumeID |-> keep[i].VolumeID,
             highlight |->
                [bookmarkId       |-> keep[i].BookmarkID,
                 text             |-> IF text(keep[i]) # <<>> THEN text(keep[i])
                                      ELSE <<"P","l","a","c","e","h","o","l","d","e","r"," ","f","o","r"," ","a","t","t","a","c","h","e","d"," ","a","n","n","o","t","a","t","i","o","n">>,
                 annotation       |-> annot(keep[i]),
                 createdAt        |-> parseKoboDate(
                                        OrElse(keep[i].DateCreated, keep[i].DateModified), now),
                 chapterProgress  |-> keep[i].ChapterProgress,
                 chapterContentId |-> keep[i].ContentID]]]

\* keys that open a new entry for every row
VolumeOrder_perRow(rows) ==
    [k \in 1..Len(rows) |-> rows[k].VolumeID]

\* the keys of bookMap in insertion order
VolumeOrder(rows) ==
    LET idx   == [i \in 1..Len(rows) |-> i]
        first == SelectSeq(idx, LAMBDA i :
                    \A j \in 1..(i - 1) : rows[j].VolumeID # rows[i].VolumeID)
    IN  [k \in 1..Len(first) |-> rows[first[k]].VolumeID]

\* one entry of result, before the sort
BookEntry(volumeId, rows, content) ==
    LET book  == ContentLookup(content, volumeId)
        mine  == SelectSeq(rows, LAMBDA r : r.VolumeID = volumeId)
        t     == IF book = Null THEN Str(<<>>)
                 ELSE OrElse(OrElse(book.Title, book.BookTitle), Str(<<>>))
        raw   == IF book = Null THEN 0
                 ELSE parseFloatHundredths(OrElse(book.PercentRead, Str(<<"0">>)).v)
    IN  [book |->
            [title        |-> IF t.v = <<>> THEN extractTitleFromPath(volumeId) ELSE t.v,
             author       |-> IF book = Null THEN <<"U","n","k","n","o","w","n"," ","A","u","t","h","o","r">>
                              ELSE OrElse(book.Attribution, Str(<<"U","n","k","n","o","w","n"," ","A","u","t","h","o","r">>)).v,
             contentId    |-> volumeId,
             \* in hundredths: raw > 1 ? raw : raw * 100
             percentRead  |-> IF raw > 100 THEN raw ELSE raw * 100,
             numPages     |-> IF book = Null THEN Null ELSE OrElse(book.NumPages, Null),
             dateLastRead |-> IF book = Null THEN Null ELSE OrElse(book.DateLastRead, Null)],
         highlights |-> [i \in 1..Len(mine) |-> mine[i].highlight]]

\* the collation rank of a character for String.prototype.localeCompare:
\* punctuation, then digits, then letters without regard to case
CollationOrder ==
    <<" ", "_", "-", ",", ";", ":", "!", "?", ".", "'", "\"", "(", ")", "[", "]",
      "{", "}", "@", "*", "/", "\\", "&", "#", "%", "+", "<", "=", ">", "|">>
        \o <<"0","1","2","3","4","5","6","7","8","9">> \o LowerCase

CharRank(c) ==
    LET hit == {i \in 1..Len(CollationOrder) : CollationOrder[i] = LowerChar(c)}
    IN  IF hit = {} THEN 0 ELSE Min(hit)

\* a.localeCompare(b) < 0: by rank, and lower case first between strings that
\* differ only in case
RECURSIVE RankLess(_, _)
RankLess(a, b) ==
    IF b = <<>> THEN FALSE
    ELSE IF a = <<>> THEN TRUE
    ELSE IF CharRank(Head(a)) # CharRank(Head(b))
         THEN CharRank(Head(a)) < CharRank(Head(b))
    ELSE RankLess(Tail(a), Tail(b))

RECURSIVE CaseLess(_, _)
CaseLess(a, b) ==
    IF a = <<>> \/ b = <<>> THEN FALSE
    ELSE IF Head(a) # Head(b) THEN Head(a) = LowerChar(Head(a))
    ELSE CaseLess(Tail(a), Tail(b))

LocaleLess(a, b) ==
    \/ RankLess(a, b)
    \/ (~RankLess(b, a) /\ CaseLess(a, b))

\* Array.prototype.sort by title (stable)
RECURSIVE SortByTitle(_)
SortByTitle(books) ==
    IF Len(books) <= 1 THEN books
    ELSE LET rest == SortByTitle(Tail(books))
             b    == Head(books)
             \* b goes before the first element that is not less than it
             pos  == Min({i \in 1..(Len(rest) + 1) :
                            i = Len(rest) + 1
                            \/ ~LocaleLess(rest[i].book.title, b.book.title)})
         IN  SubSeq(rest, 1, pos - 1) \o <<b>> \o SubSeq(rest, pos, Len(rest))

\* processHighlights(bookmarks, contentIndex)
processHighlights(bookmarks, content, now) ==
    LET rows  == RetainedRows(bookmarks, now)
        order == VolumeOrder(rows)
    IN  SortByTitle([k \in 1..Len(order) |-> BookEntry(order[k], rows, content)])

\* ------------------------------------------------------------------------
\* Note reconciler (highlight-processor)
\* ------------------------------------------------------------------------

\* createBookContext(book, highlightCount), at time now
createBookContext(book, highlightCount, now) ==
    (<<"t","i","t","l","e">> :> Str(book.title))
    @@ (<<"a","u","t","h","o","r">> :> Str(book.author))
    @@ (<<"p","r","o","g","r","e","s","s">> :> Num(RoundHundredths(book.percentRead)))
    @@ (<<"p","a","g","e","s">> :> book.numPages)
    @@ (<<"d","a","t","e","_","l","a","s","t","_","r","e","a","d">> :> book.dateLastRead)
    @@ (<<"h","i","g","h","l","i","g","h","t","s","_","c","o","u","n","t">> :> Num(highlightCount))
    @@ (<<"s","o","u","r","c","e">> :> Str(<<"k","o","b","o">>))
    @@ (<<"d","a","t","e">> :> Str(now))
    @@ (<<"c","o","n","t","e","n","t","_","i","d">> :> Str(book.contentId))

\* /#\((\d+)\)/
chapterIndexRegex ==
    <<Lit(<<"#", "(">>), Open(1), Plus(Class(Digits)), Close(1), Lit(<<")">>)>>

\* the result of extractChapterIndex for the match m of its pattern
ChapterIndexOf(m) == IF m.ok THEN Num(ParseInt(m.groups[1].text.v)) ELSE Null

\* a chapter index that falls back to the first chapter
extractChapterIndex_firstChapter(contentId) ==
    IF ~Truthy(contentId) THEN Num(0)
    ELSE IF RegExpExec(contentId.v, chapterIndexRegex, 1).ok
    THEN ChapterIndexOf(RegExpExec(contentId.v, chapterIndexRegex, 1))
    ELSE Num(0)

\* extractChapterIndex: the N of the first #(N) of the identifier, or null
extractChapterIndex(contentId) ==
    IF ~Truthy(contentId) THEN Null
    ELSE ChapterIndexOf(RegExpExec(contentId.v, chapterIndexRegex, 1))

\* a percentage cut off instead of rounded
LocationPercent_truncated(chapterIndex, chapterProgress, totalChapters) ==
    ((10 * chapterIndex + chapterProgress) * 10) \div totalChapters

\* Math.round(((chapterIndex + chapterProgress) / totalChapters) * 100), the
\* progress given in tenths
LocationPercent(chapterIndex, chapterProgress, totalChapters) ==
    ((10 * chapterIndex + chapterProgress) * 20 + totalChapters)
        \div (2 * totalChapters)

\* createHighlightContext(highlight, bookContext, chapterData)
createHighlightContext(highlight, bookContext, chapterData) ==
    LET chapterIndex    == extractChapterIndex(highlight.chapterContentId)
        locationPercent ==
            IF chapterIndex # Null /\ chapterData # Undefined
               /\ chapterData.totalChapters > 0
            THEN Num(LocationPercent(chapterIndex.v, highlight.chapterProgress,
                                     chapterData.totalChapters))
            ELSE Undefined
    IN  (<<"t","e","x","t">> :> Str(highlight.text))
        @@ (<<"a","n","n","o","t","a","t","i","o","n">> :> Str(highlight.annotation))
        @@ (<<"c","h","a","p","t","e","r","_","p","r","o","g","r","e","s","s">> :> Tenths(highlight.chapterProgress))
        @@ (<<"d","a","t","e","_","c","r","e","a","t","e","d">> :> Str(highlight.createdAt))
        @@ (<<"b","o","o","k","m","a","r","k","_","i","d">> :> Str(highlight.bookmarkId))
        @@ (<<"l","o","c","a","t","i","o","n">> :> locationPercent)
        @@ bookContext

\* the rendered block of every highlight of a sequence, in order
HighlightBlocks(highlights, bookContext, settings, chapterData) ==
    [i \in 1..Len(highlights) |->
        renderTemplate(settings.highlightTemplate,
            createHighlightContext(highlights[i], bookContext, chapterData))]

\* generateNewNote(bookWithHighlights, settings, chapterData), at time now
generateNewNote(bookWithHighlights, settings, chapterData, now) ==
    LET bookContext == createBookContext(bookWithHighlights.book,
                                         Len(bookWithHighlights.highlights), now)
        sections ==
            <<renderTemplate(settings.frontmatterTemplate, bookContext), <<>>,
              renderTemplate(settings.pageMetadataTemplate, bookContext), <<>>>>
            \o HighlightBlocks(bookWithHighlights.highlights, bookContext,
                               settings, chapterData)
    IN  Join(sections, <<"\n">>)

\* existingHashes.has(hashText(h.text))
IsDuplicate(existingHashes, highlight) ==
    hashText(highlight.text) \in existingHashes

\* a filter that drops nothing
NewHighlights_keepAll(existingContent, highlights) == highlights

\* the filter of appendHighlightsToNote: the highlights not already in the note
NewHighlights(existingContent, highlights) ==
    LET existingHashes == extractExistingHighlights(existingContent)
    IN  SelectSeq(highlights, LAMBDA h : ~IsDuplicate(existingHashes, h))

\* an append without the early return: the sync header is written even when
\* no highlight is new
appendHighlightsToNote_noEarlyReturn(existingContent, bookWithHighlights, settings, chapterData, now) ==
    LET newHighlights == NewHighlights(existingContent, bookWithHighlights.highlights)
        bookContext   == createBookContext(bookWithHighlights.book,
                                           Len(bookWithHighlights.highlights), now)
        newSections   ==
            <<<<>>, renderTemplate(settings.syncHeaderTemplate, bookContext), <<>>>>
            \o HighlightBlocks(newHighlights, bookContext, settings, chapterData)
    IN  [content |-> existingContent \o Join(newSections, <<"\n">>),
         newHighlightsCount |-> Len(newHighlights)]

\* an append that tidies the end of the existing text before adding to it
appendHighlightsToNote_trimEnd(existingContent, bookWithHighlights, settings, chapterData, now) ==
    LET newHighlights == NewHighlights(existingContent, bookWithHighlights.highlights)
        bookContext   == createBookContext(bookWithHighlights.book,
                                           Len(bookWithHighlights.highlights), now)
        newSections   ==
            <<<<>>, renderTemplate(settings.syncHeaderTemplate, bookContext), <<>>>>
            \o HighlightBlocks(newHighlights, bookContext, settings, chapterData)
    IN  IF Len(newHighlights) = 0
        THEN [content |-> existingContent, newHighlightsCount |-> 0]
        ELSE [content |-> trim(existingContent) \o Join(newSections, <<"\n">>),
              newHighlightsCount |-> Len(newHighlights)]

\* appendHighlightsToNote(existingContent, bookWithHighlights, settings,
\* chapterData), at time now
appendHighlightsToNote(existingContent, bookWithHighlights, settings, chapterData, now) ==
    LET newHighlights == NewHighlights(existingContent, bookWithHighlights.highlights)
        bookContext   == createBookContext(bookWithHighlights.book,
                                           Len(bookWithHighlights.highlights), now)
        newSections   ==
            <<<<>>, renderTemplate(settings.syncHeaderTemplate, bookContext), <<>>>>
            \o HighlightBlocks(newHighlights, bookContext, settings, chapterData)
    IN  IF Len(newHighlights) = 0
        THEN [content |-> existingContent, newHighlightsCount |-> 0]
        ELSE [content |-> existingContent \o Join(newSections, <<"\n">>),
              newHighlightsCount |-> Len(newHighlights)]

\* generateFilename truncates to this many characters
FilenameMaxLength == 100

\* a filename whose illegal characters become spaces
generateFilename_spaced(title, settings) ==
    LET rendered == renderTemplate(settings.fileNameTemplate,
                                   (<<"t","i","t","l","e">> :> Str(title)))
        illegal  == {"<", ">", ":", "\"", "/", "\\", "|", "?", "*"}
        spaced   == [i \in DOMAIN rendered |->
                        IF rendered[i] \in illegal THEN " " ELSE rendered[i]]
    IN  substring0(trim(CollapseWhiteSpace(spaced)), FilenameMaxLength)

\* generateFilename(title, settings)
generateFilename(title, settings) ==
    LET rendered == renderTemplate(settings.fileNameTemplate,
                                   (<<"t","i","t","l","e">> :> Str(title)))
        illegal  == {"<", ">", ":", "\"", "/", "\\", "|", "?", "*"}
        stripped == SelectSeq(rendered, LAMBDA c : c \notin illegal)
    IN  substring0(trim(CollapseWhiteSpace(stripped)), FilenameMaxLength)

\* ------------------------------------------------------------------------
\* Database queries (kobo-db)
\* ------------------------------------------------------------------------

\* the byte order of the model's characters, for ORDER BY ... ASC
AsciiOrder ==
    <<"\t", "\n", " ", "!", "\"", "#", "%", "&", "'", "(", ")", "*", "+", ",", "-",
      ".", "/">> \o <<"0","1","2","3","4","5","6","7","8","9">>
        \o <<":", ";", "<", "=", ">", "?", "@">> \o UpperCase
        \o <<"[", "\\", "]", "_">> \o LowerCase \o <<"{", "|", "}">>

AsciiRank(c) ==
    LET hit == {i \in 1..Len(AsciiOrder) : AsciiOrder[i] = c}
    IN  IF hit = {} THEN Len(AsciiOrder) + 1 ELSE Min(hit)

RECURSIVE BinaryLess(_, _)
BinaryLess(a, b) ==
    IF b = <<>> THEN FALSE
    ELSE IF a = <<>> THEN TRUE
    ELSE IF Head(a) # Head(b) THEN AsciiRank(Head(a)) < AsciiRank(Head(b))
    ELSE BinaryLess(Tail(a), Tail(b))

\* ORDER BY VolumeID ASC, ChapterProgress ASC
BookmarkBefore(a, b) ==
    \/ BinaryLess(a.VolumeID, b.VolumeID)
    \/ (a.VolumeID = b.VolumeID /\ a.ChapterProgress < b.ChapterProgress)

RECURSIVE SortBookmarks(_)
SortBookmarks(rows) ==
    IF Len(rows) <= 1 THEN rows
    ELSE LET rest == SortBookmarks(Tail(rows))
             r    == Head(rows)
             pos  == Min({i \in 1..(Len(rest) + 1) :
                            i = Len(rest) + 1 \/ ~BookmarkBefore(rest[i], r)})
         IN  SubSeq(rest, 1, pos - 1) \o <<r>> \o SubSeq(rest, pos, Len(rest))

\* listDeviceBookmarks(db, includeStoreBought); rows that tie keep table order
listDeviceBookmarks(db, includeStoreBought) ==
    SortBookmarks(
        SelectSeq(db.Bookmark, LAMBDA r :
            includeStoreBought \/ IndexOfFrom(r.VolumeID, <<"f","i","l","e",":","/","/","/">>, 1) > 0))

\* listDeviceContent(db, includeStoreBought): the book rows (their order does
\* not reach the notes: buildContentIndex keys them by ContentID)
listDeviceContent(db, includeStoreBought) ==
    SelectSeq(db.Content, LAMBDA r :
        /\ r.ContentType = "6" /\ r.VolumeIndex = -1
        /\ (includeStoreBought \/ IndexOfFrom(r.ContentID, <<"f","i","l","e",":","/","/","/">>, 1) > 0))

\* a count that is never zero
countDeviceBookmarks_neverZero(db) == Len(db.Bookmark) + 1

\* countDeviceBookmarks(db).total
countDeviceBookmarks(db) == Len(db.Bookmark)

\* a book id cut at the first # only
extractBookIdFromChapterId_hashOnly(chapterId) ==
    IF IndexOfFrom(chapterId, <<"#">>, 1) # 0
    THEN SubSeq(chapterId, 1, IndexOfFrom(chapterId, <<"#">>, 1) - 1)
    ELSE chapterId

\* extractBookIdFromChapterId: the prefix before the earliest of # and !!
extractBookIdFromChapterId(chapterId) ==
    LET hashIndex        == IndexOfFrom(chapterId, <<"#">>, 1)
        doubleExclamIndex == IndexOfFrom(chapterId, <<"!", "!">>, 1)
        separatorIndex ==
            IF hashIndex # 0 /\ doubleExclamIndex # 0
            THEN Min({hashIndex, doubleExclamIndex})
            ELSE IF hashIndex # 0 THEN hashIndex
            ELSE doubleExclamIndex
    IN  IF separatorIndex # 0 THEN SubSeq(chapterId, 1, separatorIndex - 1)
        ELSE chapterId

\* getBookChapterData(db): book id -> [totalChapters]
getBookChapterData(db) ==
    LET chapters == SelectSeq(db.Content, LAMBDA r : r.ContentType = "9")
        ids      == {extractBookIdFromChapterId(chapters[i].ContentID) :
                        i \in 1..Len(chapters)}
        of(id)   == {chapters[i].VolumeIndex + 1 : i \in
                        {j \in 1..Len(chapters) :
                            extractBookIdFromChapterId(chapters[j].ContentID) = id}}
    IN  [id \in ids |-> [totalChapters |-> Max(of(id) \cup {0})]]

\* Map.get
MapGet(map, key) == IF key \in DOMAIN map THEN map[key] ELSE Undefined

\* ------------------------------------------------------------------------
\* The databases and the clock the model runs on
\* ------------------------------------------------------------------------

\* rows the Bookmark table is filled from: a highlight with a chapter marker,
\* a short one whose marker exceeds the chapter table, a case and whitespace
\* variant of the first, an annotation without text, a row with neither, and
\* a highlight of two lines
BookmarkPool ==
    <<[BookmarkID |-> <<"h","1">>, VolumeID |-> <<"f","i","l","e",":","/","/","/","A",".","e","p","u","b">>,
       ContentID |-> Str(<<"f","i","l","e",":","/","/","/","A",".","e","p","u","b","#","(","3",")","c","h","4",".","x","h","t","m","l">>),
       Text |-> Str(<<"T","h","e"," ","q","u","i","c","k"," ","b","r","o","w","n"," ","f","o","x">>),
       Annotation |-> Null, DateCreated |-> Str(<<"2","0","2","4","-","0","1","-","1","5","T","1","0",":","3","0",":","0","0",".","0","0","0","Z">>),
       DateModified |-> Null, ChapterProgress |-> 5],
      [BookmarkID |-> <<"h","2">>, VolumeID |-> <<"f","i","l","e",":","/","/","/","A",".","e","p","u","b">>,
       ContentID |-> Str(<<"f","i","l","e",":","/","/","/","A",".","e","p","u","b","#","(","1","2",")","c","h",".","x","h","t","m","l">>),
       Text |-> Str(<<"S","h","o","r","t">>),
       Annotation |-> Str(<<"m","y"," ","n","o","t","e">>), DateCreated |-> Str(<<"2","0","2","4","-","0","3","-","0","2","T","0","8",":","0","5",":","0","9",".","0","0","0","Z">>),
       DateModified |-> Null, ChapterProgress |-> 0],
      [BookmarkID |-> <<"h","3">>, VolumeID |-> <<"f","i","l","e",":","/","/","/","A",".","e","p","u","b">>,
       ContentID |-> Str(<<"f","i","l","e",":","/","/","/","A",".","e","p","u","b","!","!","c","h","1",".","x","h","t","m","l">>),
       Text |-> Str(<<" ","T","H","E"," "," ","q","u","i","c","k","\t","b","r","o","w","n"," ","f","o","x"," ">>),
       Annotation |-> Null, DateCreated |-> Null,
       DateModified |-> Str(<<"2","0","2","4","-","0","3","-","0","2","T","0","8",":","0","5",":","0","9",".","0","0","0","Z">>), ChapterProgress |-> 2],
      [BookmarkID |-> <<"h","4">>, VolumeID |-> <<"b","7">>,
       ContentID |-> Null,
       Text |-> Null,
       Annotation |-> Str(<<"n","o","t","e">>), DateCreated |-> Null,
       DateModified |-> Null, ChapterProgress |-> 0],
      [BookmarkID |-> <<"h","5">>, VolumeID |-> <<"b","7">>,
       ContentID |-> Null,
       Text |-> Str(<<" "," ">>),
       Annotation |-> Null, DateCreated |-> Str(<<"2","0","2","4","-","0","1","-","1","5","T","1","0",":","3","0",":","0","0",".","0","0","0","Z">>),
       DateModified |-> Null, ChapterProgress |-> 1],
      [BookmarkID |-> <<"h","6">>, VolumeID |-> <<"f","i","l","e",":","/","/","/","A",".","e","p","u","b">>,
       ContentID |-> Str(<<"f","i","l","e",":","/","/","/","A",".","e","p","u","b","#","(","9",")","c","h","1","0",".","x","h","t","m","l">>),
       Text |-> Str(<<"L","i","n","e"," ","o","n","e"," ","i","s"," ","l","o","n","g","\n","l","i","n","e"," ","t","w","o">>),
       Annotation |-> Null, DateCreated |-> Str(<<"2","0","2","4","-","0","1","-","1","5","T","1","0",":","3","0",":","0","0",".","0","0","0","Z">>),
       DateModified |-> Null, ChapterProgress |-> 7]>>

\* the Content table: the book row of A.epub and two of its chapter rows
ContentTable ==
    <<[ContentID |-> <<"f","i","l","e",":","/","/","/","A",".","e","p","u","b">>, ContentType |-> "6", Title |-> Str(<<"A","l","p","h","a">>),
       BookTitle |-> Null, Attribution |-> Str(<<"A","n","n">>), PercentRead |-> Str(<<"0",".","2","7">>),
       NumPages |-> Num(120), DateLastRead |-> Null, VolumeIndex |-> -1],
      [ContentID |-> <<"f","i","l","e",":","/","/","/","A",".","e","p","u","b","#","(","0",")","c","h","1",".","x","h","t","m","l">>, ContentType |-> "9", Title |-> Null,
       BookTitle |-> Null, Attribution |-> Null, PercentRead |-> Null,
       NumPages |-> Null, DateLastRead |-> Null, VolumeIndex |-> 0],
      [ContentID |-> <<"f","i","l","e",":","/","/","/","A",".","e","p","u","b","!","!","c","h","1","0",".","x","h","t","m","l">>, ContentType |-> "9", Title |-> Null,
       BookTitle |-> Null, Attribution |-> Null, PercentRead |-> Null,
       NumPages |-> Null, DateLastRead |-> Null, VolumeIndex |-> 9]>>

\* the most Bookmark rows of a database
MaxBookmarks == 2

\* the most import runs started
MaxRuns == 2

\* the databases: every choice of at most MaxBookmarks rows of the pool
PoolRows(rows) ==
    LET idx == SelectSeq([i \in 1..Len(BookmarkPool) |-> i], LAMBDA i : i \in rows)
    IN  [k \in 1..Len(idx) |-> BookmarkPool[idx[k]]]

Databases ==
    {[Bookmark |-> PoolRows(rows), Content |-> ContentTable] :
        rows \in {R \in SUBSET (1..Len(BookmarkPool)) : Cardinality(R) <= MaxBookmarks}}

\* new Date().toISOString() during the k-th run
Clock(k) ==
    <<"2","0","2","6","-","1","1","-">> \o pad(10 + (k % 10)) \o <<"T","0","9",":","0","0",":","0","0",".","0","0","0","Z">>

\* settings.outputFolder of DEFAULT_SETTINGS
OutputFolder == <<"K","o","b","o"," ","H","i","g","h","l","i","g","h","t","s">>

\* ------------------------------------------------------------------------
\* State
\* ------------------------------------------------------------------------

VARIABLES
    db,                  \* the Kobo database file the settings point at
    settings,            \* the plugin settings
    vault,               \* the notes of the vault: path -> content
    folderExists,        \* whether the output folder exists in the vault
    pc,                  \* where the import run is: idle, opening, folder,
                         \* books, storage, done, error
    runs,                \* import runs started so far
    completed,           \* import runs that ran to completion so far
    dbHandle,            \* the database handle of the current run: whether it
                         \* is open, and the calls made on it
    booksWithHighlights, \* runImport: the output of processHighlights
    allChapterData,      \* runImport: the chapter table of this run
    bookIndex,           \* runImport: the loop index i, 1-based
    totalNewHighlights,  \* runImport: the counters of step 9
    newBooks,
    totalHighlightsInDb,
    notice,              \* the Notice or error the run ended with
    written,             \* paths created or modified during the current run
    locations,           \* the location of every highlight context built
                         \* during the current run
    pending,             \* the storage calls of createOrUpdateBookNote that
                         \* have not returned, with what they are to write
    handled,             \* the storage calls that returned during the
                         \* current run, in order
    reports,             \* messages shown to the user by the current run
    call                 \* a function called on its own: inputs and results

vars ==
    <<db, settings, vault, folderExists, pc, runs, completed, dbHandle,
      booksWithHighlights, allChapterData, bookIndex, totalNewHighlights,
      newBooks, totalHighlightsInDb, notice, written, locations, pending,
      handled, reports, call>>

runVars ==
    <<db, settings, vault, folderExists, pc, runs, completed, dbHandle,
      booksWithHighlights, allChapterData, bookIndex, totalNewHighlights,
      newBooks, totalHighlightsInDb, notice, written, locations, pending,
      handled, reports>>

\* the value of call in a specification that calls no function on its own
NoCall == [op |-> "none"]

\* ------------------------------------------------------------------------
\* The import run (main plugin: importHighlights, runImport)
\* ------------------------------------------------------------------------

\* no database has been opened
NoHandle == [open |-> FALSE, opens |-> 0, closes |-> 0, late |-> 0]

\* openDatabase(arrayBuffer): a new open handle
openDatabase == [open |-> TRUE, opens |-> 1, closes |-> 0, late |-> 0]

\* db.exec or db.prepare on the handle; late counts the calls made after
\* the close
Queried(handle) ==
    [handle EXCEPT !.late = IF handle.open THEN @ ELSE @ + 1]

\* closeDatabase(db)
closeDatabase(handle) == [handle EXCEPT !.open = FALSE, !.closes = @ + 1]

\* a run that leaves its try block without closing the database
Finally_skipped(handle) == handle

\* the finally block of runImport
Finally(handle) == closeDatabase(handle)

\* no import run has started, and the vault holds no note
Quiescent ==
    /\ vault = <<>>
    /\ folderExists = FALSE
    /\ pc = "idle"
    /\ runs = 0
    /\ completed = 0
    /\ dbHandle = NoHandle
    /\ booksWithHighlights = <<>>
    /\ allChapterData = <<>>
    /\ bookIndex = 1
    /\ totalNewHighlights = 0
    /\ newBooks = 0
    /\ totalHighlightsInDb = 0
    /\ notice = "none"
    /\ written = {}
    /\ locations = {}
    /\ pending = <<>>
    /\ handled = <<>>
    /\ reports = 0

Init ==
    /\ db \in Databases
    /\ settings \in {DefaultSettings(a) : a \in BOOLEAN}
    /\ Quiescent
    /\ call = NoCall

\* importHighlights: the command opens the modal and starts runImport, which
\* reads the database file and awaits openDatabase
StartImport ==
    /\ pc \in {"idle", "done", "error"}
    /\ runs < MaxRuns
    /\ pc' = "opening"
    /\ runs' = runs + 1
    /\ notice' = "none"
    /\ written' = {}
    /\ locations' = {}
    /\ pending' = <<>>
    /\ handled' = <<>>
    /\ reports' = 0
    /\ dbHandle' = NoHandle
    /\ UNCHANGED <<db, settings, vault, folderExists, completed,
                   booksWithHighlights, allChapterData, bookIndex,
                   totalNewHighlights, newBooks, totalHighlightsInDb, call>>

\* runImport steps 2 to 7, up to the await of ensureOutputFolder: open the
\* database, count, load, process; zero bookmarks throws, the finally block
\* closes the database and importHighlights shows the error
OpenDatabase ==
    /\ pc = "opening"
    /\ IF countDeviceBookmarks(db) = 0
       THEN /\ pc' = "error"
            /\ notice' = "No highlights found in the database."
            /\ dbHandle' = Finally(Queried(openDatabase))
            /\ reports' = reports + 1
            /\ UNCHANGED <<booksWithHighlights, allChapterData>>
       ELSE /\ pc' = "folder"
            /\ dbHandle' = Queried(openDatabase)
            /\ booksWithHighlights' =
                    processHighlights(
                        listDeviceBookmarks(db, settings.includeStoreBought),
                        listDeviceContent(db, settings.includeStoreBought),
                        Clock(runs))
            /\ allChapterData' = getBookChapterData(db)
            /\ UNCHANGED <<notice, reports>>
    /\ UNCHANGED <<db, settings, vault, folderExists, runs, completed, bookIndex,
                   totalNewHighlights, newBooks, totalHighlightsInDb, written,
                   locations, pending, handled, call>>

\* ensureOutputFolder, then the counters of step 9 are set up
EnsureOutputFolder ==
    /\ pc = "folder"
    /\ folderExists' = TRUE
    /\ pc' = "books"
    /\ bookIndex' = 1
    /\ totalNewHighlights' = 0
    /\ newBooks' = 0
    /\ totalHighlightsInDb' = 0
    /\ UNCHANGED <<db, settings, vault, runs, completed, dbHandle,
                   booksWithHighlights, allChapterData, notice, written,
                   locations, pending, handled, reports, call>>

\* ensureOutputFolder throws (the path is not a folder, or createFolder
\* fails): the finally block closes the database and importHighlights shows
\* the error
FolderFails ==
    /\ pc = "folder"
    /\ pc' = "error"
    /\ notice' = "Folder failure"
    /\ reports' = reports + 1
    /\ dbHandle' = Finally(dbHandle)
    /\ UNCHANGED <<db, settings, vault, folderExists, runs, completed,
                   booksWithHighlights, allChapterData, bookIndex,
                   totalNewHighlights, newBooks, totalHighlightsInDb, written,
                   locations, pending, handled, call>>

\* the path createOrUpdateBookNote writes the note of a book to
NotePath(book) ==
    OutputFolder \o <<"/">> \o generateFilename(book.title, settings)
        \o <<".", "m", "d">>

\* the locations createHighlightContext gives the highlights it is called on
LocationsOf(highlights, chapterData) ==
    {createHighlightContext(highlights[k], <<>>, chapterData)[<<"l","o","c","a","t","i","o","n">>] :
        k \in 1..Len(highlights)}

\* an append branch that modifies the note whatever the count
AppendBranch_alwaysWrites(filePath, appended, rendered) ==
    [path |-> filePath, content |-> appended.content, wrote |-> TRUE,
     newHighlights |-> appended.newHighlightsCount, isNew |-> FALSE,
     rendered |-> rendered]

\* what createOrUpdateBookNote returns and does to the vault: [path, content
\* (what the note holds afterwards), wrote, newHighlights, isNew, rendered
\* (the highlights a context was built for)]; here its append branch
AppendBranch(filePath, appended, rendered) ==
    [path |-> filePath, content |-> appended.content,
     wrote |-> appended.newHighlightsCount > 0,
     newHighlights |-> appended.newHighlightsCount, isNew |-> FALSE,
     rendered |-> rendered]

\* the overwrite branch and the create branch of createOrUpdateBookNote
WriteBranch(filePath, content, highlights, isNew) ==
    [path |-> filePath, content |-> content, wrote |-> TRUE,
     newHighlights |-> Len(highlights), isNew |-> isNew,
     rendered |-> highlights]

\* a createOrUpdateBookNote that appends to every note that exists
UpdateNoteAt_alwaysAppends(filePath, bookWithHighlights, chapterData, now) ==
    IF filePath \in DOMAIN vault
    THEN AppendBranch(filePath,
                      appendHighlightsToNote(vault[filePath], bookWithHighlights,
                                             settings, chapterData, now),
                      NewHighlights(vault[filePath], bookWithHighlights.highlights))
    ELSE WriteBranch(filePath,
                     generateNewNote(bookWithHighlights, settings, chapterData, now),
                     bookWithHighlights.highlights,
                     filePath \notin DOMAIN vault)

\* createOrUpdateBookNote from the lookup of filePath on
UpdateNoteAt(filePath, bookWithHighlights, chapterData, now) ==
    IF filePath \in DOMAIN vault /\ settings.appendToExisting
    THEN AppendBranch(filePath,
                      appendHighlightsToNote(vault[filePath], bookWithHighlights,
                                             settings, chapterData, now),
                      NewHighlights(vault[filePath], bookWithHighlights.highlights))
    ELSE WriteBranch(filePath,
                     generateNewNote(bookWithHighlights, settings, chapterData, now),
                     bookWithHighlights.highlights,
                     filePath \notin DOMAIN vault)

\* createOrUpdateBookNote(bookWithHighlights, folder, chapterData)
createOrUpdateBookNote(bookWithHighlights, chapterData, now) ==
    UpdateNoteAt(NotePath(bookWithHighlights.book), bookWithHighlights,
                 chapterData, now)

\* the statements of the loop body after createOrUpdateBookNote returned
AddResult(bookWithHighlights, bookChapterData, result) ==
    /\ vault' = IF result.wrote
                THEN (result.path :> result.content) @@ vault
                ELSE vault
    /\ written' = IF result.wrote THEN written \cup {result.path} ELSE written
    /\ locations' = locations \cup LocationsOf(result.rendered, bookChapterData)
    /\ totalNewHighlights' = totalNewHighlights + result.newHighlights
    /\ totalHighlightsInDb' =
            totalHighlightsInDb + Len(bookWithHighlights.highlights)
    /\ newBooks' = IF result.isNew THEN newBooks + 1 ELSE newBooks

\* a loop that goes on without awaiting createOrUpdateBookNote
AwaitStorage_notAwaited == "books"

\* a catch block that removes the notes the run has written
AfterFailure_rolledBack(notes, log) ==
    [path \in DOMAIN notes \ {log[i].path : i \in {j \in DOMAIN log : log[j].wrote}} |->
        notes[path]]

\* where the loop of step 9 stands once it has called createOrUpdateBookNote:
\* the call is awaited
AwaitStorage == "storage"

\* createOrUpdateBookNote has been called for the book at index and awaits
\* the vault, with result to write and return
Called(index, result) ==
    pending' = Append(pending, [index |-> index, result |-> result])

\* one turn of the loop of step 9, up to the await of createOrUpdateBookNote
ProcessBook ==
    /\ pc = "books"
    /\ bookIndex <= Len(booksWithHighlights)
    /\ Called(bookIndex,
              createOrUpdateBookNote(booksWithHighlights[bookIndex],
                                     MapGet(allChapterData,
                                            booksWithHighlights[bookIndex].book.contentId),
                                     Clock(runs)))
    /\ pc' = AwaitStorage
    /\ UNCHANGED <<db, settings, vault, folderExists, runs, completed, dbHandle,
                   booksWithHighlights, allChapterData, bookIndex,
                   totalNewHighlights, newBooks, totalHighlightsInDb, notice,
                   written, locations, handled, reports, call>>

\* the vault calls of createOrUpdateBookNote return: the note is written, the
\* loop body adds the result to its counters and the loop goes on
StorageReturns ==
    /\ pc = "storage"
    /\ pending # <<>>
    /\ AddResult(booksWithHighlights[Head(pending).index],
                 MapGet(allChapterData,
                        booksWithHighlights[Head(pending).index].book.contentId),
                 Head(pending).result)
    /\ handled' = Append(handled, [index |-> Head(pending).index,
                                   path |-> Head(pending).result.path,
                                   wrote |-> Head(pending).result.wrote,
                                   content |-> Head(pending).result.content,
                                   newHighlights |-> Head(pending).result.newHighlights,
                                   isNew |-> Head(pending).result.isNew,
                                   before |-> IF Head(pending).result.path \in DOMAIN vault
                                              THEN Str(vault[Head(pending).result.path])
                                              ELSE Null])
    /\ pending' = Tail(pending)
    /\ bookIndex' = bookIndex + 1
    /\ pc' = "books"
    /\ UNCHANGED <<db, settings, folderExists, runs, completed, dbHandle,
                   booksWithHighlights, allChapterData, notice, reports, call>>

\* what the vault holds after a storage call has failed: the catch block of
\* importHighlights shows the error and undoes nothing
AfterFailure(notes, log) == notes

\* a vault call of createOrUpdateBookNote (read, modify or create) throws:
\* nothing is written, the finally block of runImport closes the database
\* and importHighlights shows the error
StorageFails ==
    /\ pc = "storage"
    /\ pending # <<>>
    /\ pending' = <<>>
    /\ vault' = AfterFailure(vault, handled)
    /\ pc' = "error"
    /\ notice' = "Storage failure"
    /\ reports' = reports + 1
    /\ dbHandle' = Finally(dbHandle)
    /\ UNCHANGED <<db, settings, folderExists, runs, completed,
                   booksWithHighlights, allChapterData, bookIndex,
                   totalNewHighlights, newBooks, totalHighlightsInDb, written,
                   locations, handled, call>>

\* a completion notice that reports new highlights only from the second on
CompletionNotice_fromSecond(total) ==
    IF total > 1 THEN "Imported new highlights"
    ELSE "All highlights are already imported. No changes made."

\* the Notice runImport ends with
CompletionNotice(total) ==
    IF total > 0 THEN "Imported new highlights"
    ELSE "All highlights are already imported. No changes made."

\* the end of runImport: the stats, the notice, and the finally block
CompleteImport ==
    /\ pc = "books"
    /\ bookIndex > Len(booksWithHighlights)
    /\ notice' = CompletionNotice(totalNewHighlights)
    /\ dbHandle' = Finally(dbHandle)
    /\ pc' = "done"
    /\ completed' = completed + 1
    /\ reports' = reports + 1
    /\ UNCHANGED <<db, settings, vault, folderExists, runs, booksWithHighlights,
                   allChapterData, bookIndex, totalNewHighlights, newBooks,
                   totalHighlightsInDb, written, locations, pending, handled,
                   call>>

Next ==
    \/ StartImport
    \/ OpenDatabase
    \/ EnsureOutputFolder
    \/ FolderFails
    \/ ProcessBook
    \/ StorageReturns
    \/ StorageFails
    \/ CompleteImport

Spec == Init /\ [][Next]_vars

\* ------------------------------------------------------------------------
\* appendHighlightsToNote and generateNewNote called on their own: a note is
\* produced from an existing text (append) or from nothing (generate), and
\* the same book is then appended to the result
\* ------------------------------------------------------------------------

\* the device of the calls below: no bookmark, the Content table
NoBookmarks == [Bookmark |-> <<>>, Content |-> ContentTable]

\* the books processHighlights makes of the databases, and one of them with
\* its highlights taken away
ProcessedBooks ==
    UNION {Range(processHighlights(listDeviceBookmarks(d, TRUE),
                                   listDeviceContent(d, TRUE), Clock(0))) :
              d \in Databases}

Books ==
    ProcessedBooks
        \cup {[b EXCEPT !.highlights = <<>>] :
                 b \in {c \in ProcessedBooks : c.book.title = <<"A","l","p","h","a">>}}

\* the texts of existing notes: empty, a note whose quote is a re-typed
\* variant of a highlight, a note of short and multi-line quotes, and a note
\* that ends in an empty quote
ExistingNotes ==
    {<<>>,
     <<"#"," ","A","l","p","h","a","\n","\n",">"," ","t","h","e"," ","Q","U","I","C","K"," "," ","b","r","o","w","n"," ","f","o","x","\n","\n","-","-","-","\n">>,
     <<">"," ","S","h","o","r","t","\n","\n",">"," ","L","i","n","e"," ","o","n","e"," ","i","s"," ","l","o","n","g","\n","l","i","n","e"," ","t","w","o","\n","\n","-","-","-">>,
     <<"R","e","a","d","i","n","g"," ","n","o","t","e","s","\n",">">>}

\* the chapter table entry handed to the calls: that of the book, or none
ChapterEntries(book) ==
    {MapGet(getBookChapterData(NoBookmarks), book.contentId), Undefined}

AppendInit ==
    /\ db = NoBookmarks
    /\ settings = DefaultSettings(TRUE)
    /\ Quiescent
    /\ \E existing \in ExistingNotes, b \in Books :
         \E chapterData \in ChapterEntries(b.book) :
            call = [op |-> "start", via |-> "none", existing |-> existing,
                    book |-> b, chapterData |-> chapterData,
                    text1 |-> <<>>, n1 |-> 0, text2 |-> <<>>, n2 |-> 0]

\* the first note, as returned by appendHighlightsToNote
Appended(result) ==
    call' = [call EXCEPT !.op = "first", !.via = "append",
                         !.text1 = result.content,
                         !.n1 = result.newHighlightsCount]

\* appendHighlightsToNote(existing, book): (text1, n1)
AppendFirst ==
    /\ call.op = "start"
    /\ Appended(appendHighlightsToNote(call.existing, call.book, settings,
                                       call.chapterData, Clock(1)))
    /\ UNCHANGED runVars

\* generateNewNote(book): text1, every highlight of the book rendered
GenerateFirst ==
    /\ call.op = "start"
    /\ call.existing = <<>>
    /\ call' = [call EXCEPT !.op = "first", !.via = "generate",
                            !.text1 = generateNewNote(call.book, settings,
                                                      call.chapterData, Clock(1)),
                            !.n1 = Len(call.book.highlights)]
    /\ UNCHANGED runVars

\* the second note, as returned by appendHighlightsToNote
AppendedAgain(result) ==
    call' = [call EXCEPT !.op = "second",
                         !.text2 = result.content,
                         !.n2 = result.newHighlightsCount]

\* appendHighlightsToNote(text1, book): (text2, n2)
AppendSecond ==
    /\ call.op = "first"
    /\ AppendedAgain(appendHighlightsToNote(call.text1, call.book, settings,
                                            call.chapterData, Clock(2)))
    /\ UNCHANGED runVars

AppendNext ==
    \/ AppendFirst
    \/ GenerateFirst
    \/ AppendSecond

AppendSpec == AppendInit /\ [][AppendNext]_vars

\* ------------------------------------------------------------------------
\* Properties of the append calls (AppendSpec)
\* ------------------------------------------------------------------------

\* the highlights whose fingerprint the blockquote scan of text finds
Known(text, highlights) ==
    {k \in 1..Len(highlights) :
        hashText(highlights[k].text) \in extractExistingHighlights(text)}

\* the highlights of the call, and those the scan of the existing text misses
Incoming == call.book.highlights

Surviving == SelectSeq(Incoming, LAMBDA h :
                hashText(h.text) \notin extractExistingHighlights(call.existing))

\* the block of one highlight and the sync header, rendered at the first call
BlockOf(h) ==
    renderTemplate(settings.highlightTemplate,
        createHighlightContext(h, createBookContext(call.book.book, Len(Incoming), Clock(1)),
                               call.chapterData))

SyncHeader ==
    renderTemplate(settings.syncHeaderTemplate,
                   createBookContext(call.book.book, Len(Incoming), Clock(1)))

\* every block of a sequence of highlights, each after a newline
RECURSIVE BlockLines(_)
BlockLines(highlights) ==
    IF highlights = <<>> THEN <<>>
    ELSE <<"\n">> \o BlockOf(Head(highlights)) \o BlockLines(Tail(highlights))

\* what the first call added after the existing text
Added == SubSeq(call.text1, Len(call.existing) + 1, Len(call.text1))

\* C1: appending a book to a text and then appending the same book to the
\* result adds nothing the second time: the second call counts 0 new
\* highlights and returns its input
C1_AppendIdempotent ==
    (call.op = "second" /\ call.via = "append")
        => (call.n2 = 0 /\ call.text2 = call.text1)

\* C3: when the scan of the existing text finds the fingerprint of every
\* incoming highlight (or there is none), the append returns the existing
\* text itself and counts 0 new highlights
C3_NoOp ==
    /\ (call.op # "start" /\ call.via = "append"
            /\ Known(call.existing, Incoming) = DOMAIN Incoming)
        => (call.text1 = call.existing /\ call.n1 = 0)
    /\ (call.op = "second" /\ Known(call.text1, Incoming) = DOMAIN Incoming)
        => (call.text2 = call.text1 /\ call.n2 = 0)

\* C3 happens: a book with highlights, all of them found in a non-empty note
C3_NoOpReached ==
    /\ call.op = "first" /\ call.via = "append"
    /\ Incoming # <<>> /\ call.existing # <<>>
    /\ Known(call.existing, Incoming) = DOMAIN Incoming
    /\ call.text1 = call.existing

\* C4: when a highlight survives, the result is the existing text followed
\* by a newline, the sync header, a newline, and a newline and a block for
\* each surviving highlight in input order
C4_AppendOnly ==
    (call.op # "start" /\ call.via = "append" /\ Surviving # <<>>)
        => call.text1 = call.existing \o <<"\n">> \o SyncHeader \o <<"\n">>
                            \o BlockLines(Surviving)

\* C4 happens: a non-empty note grew, some highlights added and some not
C4_AppendOnlyReached ==
    /\ call.op = "first" /\ call.via = "append"
    /\ call.existing # <<>>
    /\ Len(call.text1) > Len(call.existing)
    /\ Len(Surviving) \in 1..(Len(Incoming) - 1)

\* C5: the blocks added are those of the highlights whose fingerprint the
\* scan of the existing text does not find, and the count returned is their
\* number
C5_DuplicateFilter ==
    (call.op # "start" /\ call.via = "append")
        => /\ call.n1 = Len(Incoming) - Cardinality(Known(call.existing, Incoming))
           /\ \A k \in DOMAIN Incoming :
                (IndexOfFrom(Added, BlockOf(Incoming[k]), 1) # 0)
                    <=> (k \notin Known(call.existing, Incoming))

\* C5 happens: of two incoming highlights the first is dropped, the second
\* appended
C5_DuplicateFilterReached ==
    /\ call.op = "first" /\ call.via = "append"
    /\ Len(Incoming) = 2
    /\ Known(call.existing, Incoming) = {1}
    /\ call.n1 = 1

\* C6: every highlight rendered into a fresh note is found again by the
\* blockquote scan of that note, under the fingerprint of its text
C6_RoundTrip ==
    (call.op = "first" /\ call.existing = <<>>)
        => Known(call.text1, Incoming) = DOMAIN Incoming

\* ------------------------------------------------------------------------
\* createHighlightContext called on its own (LocationSpec)
\* ------------------------------------------------------------------------

\* the largest chapter index of an identifier
MaxChapterIndex == 12

\* a chapter-content identifier with the marker #(n)
MarkedId(n) ==
    <<"f","i","l","e",":","/","/","/","b",".","e","p","u","b","#","(">> \o IntToStr(n) \o <<")","O","E","B","P","S","/","c","h","4",".","x","h","t","m","l">>

\* identifiers without a marker, and the absent identifier
UnmarkedIds ==
    {Null,
     Str(<<"f","i","l","e",":","/","/","/","b",".","e","p","u","b","!","!","O","E","B","P","S","/","c","h","4",".","x","h","t","m","l">>),
     Str(<<"f","i","l","e",":","/","/","/","b",".","e","p","u","b","#","(",")","c","h","4",".","x","h","t","m","l">>),
     Str(<<"f","i","l","e",":","/","/","/","b",".","e","p","u","b","#","(","x","3",")","c","h","4",".","x","h","t","m","l">>),
     Str(<<"f","i","l","e",":","/","/","/","b",".","e","p","u","b","#","3","(","4",")">>),
     Str(<<"f","i","l","e",":","/","/","/","b",".","e","p","u","b","#","(","5">>)}

\* the identifiers, each with the chapter index it was built with
ContentIds ==
    {[id |-> Str(MarkedId(n)), marker |-> Num(n)] : n \in 0..MaxChapterIndex}
        \cup {[id |-> u, marker |-> Null] : u \in UnmarkedIds}

\* the chapter table entries: none, no chapter, and chapter counts
ChapterTables ==
    {Undefined} \cup {[totalChapters |-> t] : t \in {0, 3, 4, 10}}

\* the chapter progress values, in tenths, for which the double arithmetic
\* of ((N + progress) / T) * 100 gives the exact quotient's rounding: every
\* tenth unless T is a multiple of 4, where only 0 and 0.5 are
ExactProgress(chapterData) ==
    IF chapterData # Undefined /\ chapterData.totalChapters % 4 = 0
       /\ chapterData.totalChapters > 0
    THEN {0, 5} ELSE 0..9

\* the highlight createHighlightContext is called on
HighlightAt(contentId, chapterProgress) ==
    [bookmarkId |-> <<"h">>, text |-> <<"T","e","x","t">>, annotation |-> <<>>,
     createdAt |-> Clock(0), chapterProgress |-> chapterProgress,
     chapterContentId |-> contentId]

LocationInit ==
    /\ db = NoBookmarks
    /\ settings = DefaultSettings(TRUE)
    /\ Quiescent
    /\ \E c \in ContentIds, chapterData \in ChapterTables :
         \E chapterProgress \in ExactProgress(chapterData) :
            call = [op |-> "start", contentId |-> c.id, marker |-> c.marker,
                    chapterProgress |-> chapterProgress,
                    chapterData |-> chapterData, location |-> Undefined]

\* createHighlightContext(highlight, {}, chapterData).location
BuildContext ==
    /\ call.op = "start"
    /\ call' = [call EXCEPT !.op = "built",
                    !.location =
                        createHighlightContext(
                            HighlightAt(call.contentId, call.chapterProgress),
                            <<>>, call.chapterData)[<<"l","o","c","a","t","i","o","n">>]]
    /\ UNCHANGED runVars

LocationNext == BuildContext

LocationSpec == LocationInit /\ [][LocationNext]_vars

\* s holds a marker: "#(", one or more digits, ")"
HasMarker(s) ==
    \E i \in 1..Len(s) : \E j \in (i + 3)..Len(s) :
        /\ s[i] = "#" /\ s[i + 1] = "(" /\ s[j] = ")"
        /\ \A k \in (i + 2)..(j - 1) : s[k] \in Digits

\* C8: the location is absent when the identifier is null or has no #(N)
\* marker, when the book has no chapter table entry, and when the entry
\* counts 0 chapters
C8_LocationAbsent ==
    (call.op = "built"
        /\ \/ call.contentId = Null
           \/ (call.contentId # Null /\ ~HasMarker(call.contentId.v))
           \/ call.chapterData = Undefined
           \/ (call.chapterData # Undefined /\ call.chapterData.totalChapters = 0))
        => call.location = Undefined

\* C8 happens: an identifier without marker, for a book of 10 chapters
C8_LocationAbsentReached ==
    /\ call.op = "built"
    /\ call.contentId # Null /\ ~HasMarker(call.contentId.v)
    /\ call.chapterData = [totalChapters |-> 10]
    /\ call.location = Undefined

\* C9: with chapter index N and T > 0 chapters the location is the integer
\* nearest to 100 * (N + progress) / T, halves rounded up
C9_LocationFormula ==
    (call.op = "built" /\ call.marker # Null /\ call.chapterData # Undefined
        /\ call.chapterData.totalChapters > 0)
        => /\ call.location # Undefined
           /\ 2 * call.chapterData.totalChapters * call.location.v
                <= 20 * (10 * call.marker.v + call.chapterProgress)
                    + call.chapterData.totalChapters
           /\ 20 * (10 * call.marker.v + call.chapterProgress)
                    + call.chapterData.totalChapters
                < 2 * call.chapterData.totalChapters * (call.location.v + 1)

\* C9 happens: file:///b.epub#(3)OEBPS/ch4.xhtml, progress 0.5, 10 chapters
\* give 35
C9_LocationFormulaReached ==
    /\ call.op = "built"
    /\ call.contentId = Str(<<"f","i","l","e",":","/","/","/","b",".","e","p","u","b","#","(","3",")","O","E","B","P","S","/","c","h","4",".","x","h","t","m","l">>)
    /\ call.chapterProgress = 5
    /\ call.chapterData = [totalChapters |-> 10]
    /\ call.location = Num(35)

\* ------------------------------------------------------------------------
\* hashText called on its own, on a text and on a variant of it (HashSpec)
\* ------------------------------------------------------------------------

\* the longest text core, and the filler that takes a text to the prefix
\* length of the fingerprint
MaxTextLen == 3

FillerLen == 48

TextChars == {"A", "b", " ", "\n"}

RECURSIVE Texts(_)
Texts(n) ==
    IF n = 0 THEN {<<>>}
    ELSE Texts(n - 1)
            \cup {Append(t, c) : t \in {u \in Texts(n - 1) : Len(u) = n - 1},
                                 c \in TextChars}

Filler == [i \in 1..FillerLen |-> "x"]

\* the texts hashed: a core, alone or after the filler and a space
HashedTexts ==
    Texts(MaxTextLen) \cup {Filler \o <<" ">> \o t : t \in Texts(MaxTextLen)}

\* the other case of a letter
SwapChar(c) ==
    IF c \in Range(UpperCase)
    THEN LowerCase[CHOOSE i \in 1..26 : UpperCase[i] = c]
    ELSE IF c \in Range(LowerCase)
    THEN UpperCase[CHOOSE i \in 1..26 : LowerCase[i] = c]
    ELSE c

\* every whitespace character of s twice
RECURSIVE DoubleWhiteSpace(_)
DoubleWhiteSpace(s) ==
    IF s = <<>> THEN <<>>
    ELSE (IF Head(s) \in WhiteSpace THEN <<Head(s), Head(s)>> ELSE <<Head(s)>>)
            \o DoubleWhiteSpace(Tail(s))

\* a text that differs from t in letter case, in the length of its
\* whitespace runs, or in leading and trailing whitespace
Variant(t, kind) ==
    CASE kind = "case"  -> [i \in 1..Len(t) |-> SwapChar(t[i])]
      [] kind = "runs"  -> DoubleWhiteSpace(t)
      [] kind = "edges" -> <<" ", "\t">> \o t \o <<"\n">>

HashInit ==
    /\ db = NoBookmarks
    /\ settings = DefaultSettings(TRUE)
    /\ Quiescent
    /\ \E t \in HashedTexts :
         call = [op |-> "start", t |-> t, u |-> <<>>, fingerprint |-> <<>>,
                 variantFingerprint |-> <<>>, duplicate |-> FALSE]

\* hashText(t)
HashText ==
    /\ call.op = "start"
    /\ call' = [call EXCEPT !.op = "hashed", !.fingerprint = hashText(call.t)]
    /\ UNCHANGED runVars

\* hashText(u) for a variant u of t, and the filter of appendHighlightsToNote
\* on u when the note holds the fingerprint of t
HashVariant ==
    /\ call.op = "hashed"
    /\ \E kind \in {"case", "runs", "edges"} :
         call' = [call EXCEPT
                    !.op = "compared",
                    !.u = Variant(call.t, kind),
                    !.variantFingerprint = hashText(Variant(call.t, kind)),
                    !.duplicate = IsDuplicate({call.fingerprint},
                                              [text |-> Variant(call.t, kind)])]
    /\ UNCHANGED runVars

HashNext ==
    \/ HashText
    \/ HashVariant

HashSpec == HashInit /\ [][HashNext]_vars

\* the words of a text: its maximal runs of non-whitespace characters
RECURSIVE Words(_, _)
Words(t, word) ==
    IF t = <<>> THEN (IF word = <<>> THEN <<>> ELSE <<word>>)
    ELSE IF Head(t) \in WhiteSpace
    THEN (IF word = <<>> THEN <<>> ELSE <<word>>) \o Words(Tail(t), <<>>)
    ELSE Words(Tail(t), Append(word, Head(t)))

\* the words, each after a space
RECURSIVE Spaced(_)
Spaced(words) ==
    IF words = <<>> THEN <<>>
    ELSE <<" ">> \o Head(words) \o Spaced(Tail(words))

\* t lower-cased, every whitespace run one space, trimmed
Normal(t) ==
    SubSeq(Spaced(Words(toLowerCase(t), <<>>)), 2,
           Len(Spaced(Words(toLowerCase(t), <<>>))))

\* the first n characters of s
FirstChars(s, n) == [i \in 1..(IF Len(s) < n THEN Len(s) ELSE n) |-> s[i]]

\* C7: the fingerprint of t is the first 50 characters of its normal form
\* (or "empty" when that is empty), "_" and the length of the normal form;
\* a variant of t in case, whitespace run length or edge whitespace has the
\* same fingerprint and is filtered as a duplicate of t
C7_Fingerprint ==
    /\ call.op # "start"
        => call.fingerprint =
                (IF Normal(call.t) = <<>> THEN <<"e","m","p","t","y">>
                 ELSE FirstChars(Normal(call.t), 50))
                    \o <<"_">> \o IntToStr(Len(Normal(call.t)))
    /\ call.op = "compared"
        => (call.variantFingerprint = call.fingerprint /\ call.duplicate)

\* C7 happens: a text longer than 50 characters and a different text of the
\* same fingerprint
C7_FingerprintReached ==
    /\ call.op = "compared"
    /\ call.u # call.t
    /\ Len(Normal(call.t)) > 50
    /\ toLowerCase(call.u) # toLowerCase(call.t)
    /\ call.variantFingerprint = call.fingerprint
    /\ call.duplicate

\* ------------------------------------------------------------------------
\* Properties of the import run (Spec)
\* ------------------------------------------------------------------------

\* C2: in append mode, with the database and the settings as they were, a
\* run that follows a completed run creates and modifies no note and counts
\* no new highlight
C2_NoReimport ==
    (settings.appendToExisting /\ completed >= 1 /\ runs > 1
        /\ pc \in {"books", "done"})
        => (written = {} /\ totalNewHighlights = 0)

\* C10: every location computed during an import run lies in 0..100
C10_LocationInRange ==
    \A l \in locations : l # Undefined => (0 <= l.v /\ l.v <= 100)

\* ------------------------------------------------------------------------
\* getBookChapterData called on its own (ChapterSpec)
\* ------------------------------------------------------------------------

\* the most rows of the Content table
MaxContentRows == 2

\* the identifiers of the rows: # first, !! first, both with either first,
\* and neither
RowIds ==
    {<<"f","i","l","e",":","/","/","/","A",".","e","p","u","b","#","(","0",")","c","h","1",".","x","h","t","m","l">>,
     <<"f","i","l","e",":","/","/","/","A",".","e","p","u","b","!","!","c","h","1","0",".","x","h","t","m","l">>,
     <<"f","i","l","e",":","/","/","/","B",".","e","p","u","b","!","!","x","#","(","1",")","y">>,
     <<"f","i","l","e",":","/","/","/","B",".","e","p","u","b","#","(","2",")","!","!","z">>,
     <<"p","l","a","i","n">>}

\* the rows of the Content table: chapter rows, and book rows
ContentRows ==
    {[ContentID |-> id, ContentType |-> type, VolumeIndex |-> v] :
        id \in RowIds, type \in {"9"}, v \in {-2, -1, 0, 9}}
        \cup {[ContentID |-> <<"f","i","l","e",":","/","/","/","A",".","e","p","u","b">>, ContentType |-> "6", VolumeIndex |-> v] :
                 v \in {-1, 20}}

RECURSIVE ContentTables(_)
ContentTables(n) ==
    IF n = 0 THEN {<<>>}
    ELSE ContentTables(n - 1)
            \cup {Append(t, r) : t \in {u \in ContentTables(n - 1) : Len(u) = n - 1},
                                 r \in ContentRows}

ChapterInit ==
    /\ db = NoBookmarks
    /\ settings = DefaultSettings(TRUE)
    /\ Quiescent
    /\ \E content \in ContentTables(MaxContentRows) :
         call = [op |-> "start", content |-> content, table |-> <<>>]

\* getBookChapterData(db)
BuildChapterTable ==
    /\ call.op = "start"
    /\ call' = [call EXCEPT !.op = "built",
                    !.table = getBookChapterData([Bookmark |-> <<>>,
                                                  Content |-> call.content])]
    /\ UNCHANGED runVars

ChapterNext == BuildChapterTable

ChapterSpec == ChapterInit /\ [][ChapterNext]_vars

\* the position of the first separator of an identifier: a # or the first
\* ! of a !!, or the position after its end
FirstSeparator(id) ==
    Min({i \in 1..Len(id) :
            id[i] = "#" \/ (id[i] = "!" /\ i < Len(id) /\ id[i + 1] = "!")}
        \cup {Len(id) + 1})

\* the book id of an identifier
BookIdOf(id) == [i \in 1..(FirstSeparator(id) - 1) |-> id[i]]

\* the chapter indexes of the chapter-type rows of book b
IndexesOf(b) ==
    {call.content[i].VolumeIndex :
        i \in {j \in DOMAIN call.content :
                 call.content[j].ContentType = "9"
                 /\ BookIdOf(call.content[j].ContentID) = b}}

\* the book ids of the chapter-type rows
ChapterBooks ==
    {BookIdOf(call.content[i].ContentID) :
        i \in {j \in DOMAIN call.content : call.content[j].ContentType = "9"}}

\* C11 as stated: every book id of a chapter row has totalChapters = its
\* largest chapter index + 1, and no other book id has an entry
C11_ChapterTableAsStated ==
    call.op = "built"
        => /\ DOMAIN call.table = ChapterBooks
           /\ \A b \in ChapterBooks :
                call.table[b].totalChapters = Max(IndexesOf(b)) + 1

\* C11, amended: every book id of a chapter row has totalChapters = its
\* largest chapter index + 1, or 0 when that is negative, and no other book
\* id has an entry
C11_ChapterTable ==
    call.op = "built"
        => /\ DOMAIN call.table = ChapterBooks
           /\ \A b \in ChapterBooks :
                call.table[b].totalChapters =
                    (IF Max(IndexesOf(b)) + 1 < 0 THEN 0
                     ELSE Max(IndexesOf(b)) + 1)

\* C11 happens: two rows of one book, cut at # and at !!, give 10 chapters
C11_ChapterTableReached ==
    /\ call.op = "built"
    /\ Len(call.content) = 2
    /\ call.content[1].ContentID # call.content[2].ContentID
    /\ DOMAIN call.table = {<<"f","i","l","e",":","/","/","/","A",".","e","p","u","b">>}
    /\ call.table[<<"f","i","l","e",":","/","/","/","A",".","e","p","u","b">>].totalChapters = 10

\* ------------------------------------------------------------------------
\* renderTemplate called on its own (RenderSpec)
\* ------------------------------------------------------------------------

\* the most pieces of a template
MaxPieces == 2

\* a piece of a template: plain text, a conditional span, a conditional
\* opening with no endif, a variable, or a variable with the date filter
Piece(t, name, neg, tight, body) ==
    [t |-> t, name |-> name, neg |-> neg, tight |-> tight, body |-> body]

TextPiece(body) == Piece("text", <<>>, FALSE, FALSE, body)

IfPiece(name, neg, tight, body) == Piece("if", name, neg, tight, body)

OpenPiece(name) == Piece("open", name, FALSE, FALSE, <<>>)

VarPiece(name) == Piece("var", name, FALSE, FALSE, <<>>)

DatePiece(name, format) == Piece("date", name, FALSE, FALSE, format)

\* the opening marker of a conditional, with or without optional spaces
IfMarker(piece) ==
    (IF piece.tight THEN <<"{","%","i","f"," ">> ELSE <<"{","%"," ","i","f"," ">>)
        \o (IF piece.neg THEN <<"n","o","t"," ">> ELSE <<>>)
        \o piece.name
        \o (IF piece.tight THEN <<"%","}">> ELSE <<" ","%","}">>)

\* the text of a piece, as the template holds it
PieceSource(piece) ==
    CASE piece.t = "text" -> piece.body
      [] piece.t = "if" ->
            IfMarker(piece) \o piece.body
                \o (IF piece.tight THEN <<"{","%","e","n","d","i","f","%","}">> ELSE <<"{","%"," ","e","n","d","i","f"," ","%","}">>)
      [] piece.t = "open" -> IfMarker(piece)
      [] piece.t = "var" -> <<"{","{">> \o piece.name \o <<"}","}">>
      [] piece.t = "date" ->
            <<"{","{">> \o piece.name \o <<"|","d","a","t","e","(","'">> \o piece.body \o <<"'",")","}","}">>

\* the pieces templates are made of
Pieces ==
    {TextPiece(<<"H","i"," ">>)}
        \cup {IfPiece(name, neg, FALSE, <<"B","\n">>) :
                 name \in {<<"t","i","t","l","e">>, <<"p","r","o","g","r","e","s","s">>}, neg \in BOOLEAN}
        \cup {IfPiece(<<"p","r","o","g","r","e","s","s">>, TRUE, TRUE, <<"B">>)}
        \cup {OpenPiece(<<"t","i","t","l","e">>)}
        \cup {VarPiece(name) :
                 name \in {<<"t","i","t","l","e">>,
                           <<"p","r","o","g","r","e","s","s">>,
                           <<"a","u","t","h","o","r">>,
                           <<"m","i","s","s","i","n","g">>,
                           <<"c","o","n","s","t","r","u","c","t","o","r">>}}
        \cup {DatePiece(<<"d","a","t","e","C","r","e","a","t","e","d">>, <<"Y","Y","Y","Y","-","M","M","-","D","D">>),
              DatePiece(<<"t","i","t","l","e">>, <<"Y","Y","Y","Y">>),
              DatePiece(<<"m","i","s","s","i","n","g">>, <<"D","D">>)}

RECURSIVE PieceLists(_)
PieceLists(n) ==
    IF n = 0 THEN {<<>>}
    ELSE PieceLists(n - 1)
            \cup {Append(l, piece) : l \in {u \in PieceLists(n - 1) : Len(u) = n - 1},
                                     piece \in Pieces}

\* the template made of the pieces
RECURSIVE TemplateOf(_)
TemplateOf(pieces) ==
    IF pieces = <<>> THEN <<>>
    ELSE PieceSource(Head(pieces)) \o TemplateOf(Tail(pieces))

\* a context holding author and dateCreated, and title and progress unless
\* undefined
ContextOf(title, progress) ==
    [name \in {<<"a","u","t","h","o","r">>, <<"d","a","t","e","C","r","e","a","t","e","d">>}
                \cup (IF title = Undefined THEN {} ELSE {<<"t","i","t","l","e">>})
                \cup (IF progress = Undefined THEN {} ELSE {<<"p","r","o","g","r","e","s","s">>}) |->
        CASE name = <<"a","u","t","h","o","r">> -> Str(<<"A">>)
          [] name = <<"d","a","t","e","C","r","e","a","t","e","d">> -> Str(<<"2","0","2","4","-","0","1","-","1","5","T","1","0",":","3","0",":","0","0",".","0","0","0","Z">>)
          [] name = <<"t","i","t","l","e">> -> title
          [] name = <<"p","r","o","g","r","e","s","s">> -> progress]

RenderContexts ==
    {ContextOf(title, progress) :
        title \in {Undefined, Str(<<>>), Str(<<"T">>), Str(<<"{","{","a","u","t","h","o","r","}","}">>)},
        progress \in {Undefined, Null, Num(0), Num(35), Str(<<"0">>)}}

RenderInit ==
    /\ db = NoBookmarks
    /\ settings = DefaultSettings(TRUE)
    /\ Quiescent
    /\ \E pieces \in PieceLists(MaxPieces) \ {<<>>}, context \in RenderContexts :
         call = [op |-> "start", pieces |-> pieces, context |-> context, out |-> <<>>]

\* renderTemplate(template, context)
Render ==
    /\ call.op = "start"
    /\ call' = [call EXCEPT !.op = "rendered",
                    !.out = renderTemplate(TemplateOf(call.pieces), call.context)]
    /\ UNCHANGED runVars

RenderNext == Render

RenderSpec == RenderInit /\ [][RenderNext]_vars

\* the kinds of the pieces of the template
PieceKinds == {call.pieces[i].t : i \in DOMAIN call.pieces}

\* the context holds a value for the name, and it is neither null, the
\* empty string nor the number 0
HasValue(name) ==
    /\ name \in DOMAIN call.context
    /\ call.context[name] \notin {Null, Str(<<>>), Num(0)}

\* what a text or a conditional span is to be replaced by
SpanShown(piece) ==
    IF piece.t = "text" \/ (piece.neg # HasValue(piece.name)) THEN piece.body
    ELSE <<>>

RECURSIVE SpansShown(_)
SpansShown(pieces) ==
    IF pieces = <<>> THEN <<>>
    ELSE SpanShown(Head(pieces)) \o SpansShown(Tail(pieces))

\* the context without a value for progress
WithoutProgress(context) ==
    [name \in DOMAIN context \ {<<"p","r","o","g","r","e","s","s">>} |-> context[name]]

HoldsMarker(text) ==
    \E i \in 1..(Len(text) - 1) :
        text[i] = "{" /\ text[i + 1] \in {"{", "%"}

\* the piece is text, or a variable of the context whose value is a string
\* holding a marker
TextOrMarkerValue(piece) ==
    \/ piece.t = "text"
    \/ /\ piece.t \in {"var", "date"}
       /\ piece.name \in DOMAIN call.context
       /\ call.context[piece.name].k = "str"
       /\ HoldsMarker(call.context[piece.name].v)

\* the text of a text piece, the value of a variable piece
RECURSIVE ValuesInserted(_)
ValuesInserted(pieces) ==
    IF pieces = <<>> THEN <<>>
    ELSE (IF Head(pieces).t = "text" THEN Head(pieces).body
          ELSE call.context[Head(pieces).name].v)
            \o ValuesInserted(Tail(pieces))

\* C13: a value holding {{ or {% markers, inserted by {{NAME}} or by
\* {{NAME|date('PATTERN')}}, appears in the output unchanged
C13_NoReexpansion ==
    (call.op = "rendered"
        /\ \A i \in DOMAIN call.pieces : TextOrMarkerValue(call.pieces[i]))
        => call.out = ValuesInserted(call.pieces)

\* the piece is text, an unterminated conditional, or a variable that the
\* context does not hold
TextOrUnknown(piece) ==
    \/ piece.t \in {"text", "open"}
    \/ piece.t \in {"var", "date"} /\ piece.name \notin DOMAIN call.context

\* text and unterminated conditionals as they are, unknown variables empty
RECURSIVE UnknownsEmptied(_)
UnknownsEmptied(pieces) ==
    IF pieces = <<>> THEN <<>>
    ELSE (IF Head(pieces).t \in {"text", "open"} THEN PieceSource(Head(pieces))
          ELSE <<>>)
            \o UnknownsEmptied(Tail(pieces))

\* C14: a variable whose NAME the context does not hold renders as the
\* empty string, with or without the date filter, and an {% if NAME %} with
\* no {% endif %} is left in the output as it is
C14_UnknownEmpty ==
    (call.op = "rendered"
        /\ \A i \in DOMAIN call.pieces : TextOrUnknown(call.pieces[i]))
        => call.out = UnknownsEmptied(call.pieces)

\* ------------------------------------------------------------------------
\* formatDate called on its own (DateSpec)
\* ------------------------------------------------------------------------

\* the most tokens of a pattern, the pattern YYYY-MM-DD apart
MaxTokens == 2

\* the tokens of formatDate
Tokens ==
    {<<"Y","Y","Y","Y">>,
     <<"M","M","M","M">>,
     <<"M","M","M">>,
     <<"M","M">>,
     <<"d","d","d","d">>,
     <<"D","D">>,
     <<"H","H">>,
     <<"m","m">>,
     <<"s","s">>}

IsoTokens == <<<<"Y","Y","Y","Y">>, <<"M","M">>, <<"D","D">>>>

RECURSIVE TokenLists(_)
TokenLists(n) ==
    IF n = 0 THEN {<<>>}
    ELSE TokenLists(n - 1)
            \cup {Append(l, t) : l \in {u \in TokenLists(n - 1) : Len(u) = n - 1},
                                 t \in Tokens}

\* valid dates as toISOString writes them: every month, three days of it,
\* two years
ValidDates ==
    {year \o <<"-">> \o pad(month) \o <<"-">> \o day \o <<"T","0","8",":","0","5",":","0","9",".","0","0","0","Z">> :
        year \in {<<"1","9","9","9">>, <<"2","0","2","4">>},
        month \in 1..12,
        day \in {<<"0","5">>, <<"1","5">>, <<"2","8">>}}

DateInit ==
    /\ db = NoBookmarks
    /\ settings = DefaultSettings(TRUE)
    /\ Quiescent
    /\ \E date \in ValidDates,
          tokens \in (TokenLists(MaxTokens) \ {<<>>}) \cup {IsoTokens} :
         call = [op |-> "start", date |-> date, tokens |-> tokens, out |-> <<>>]

\* formatDate(dateStr, format), the pattern being the tokens joined by -
FormatDate ==
    /\ call.op = "start"
    /\ call' = [call EXCEPT !.op = "formatted",
                    !.out = formatDate(call.date, Join(call.tokens, <<"-">>))]
    /\ UNCHANGED runVars

DateNext == FormatDate

DateSpec == DateInit /\ [][DateNext]_vars

\* what a token stands for, read off the date as written
FieldText(token) ==
    CASE token = <<"Y","Y","Y","Y">> -> SubSeq(call.date, 1, 4)
      [] token = <<"M","M","M","M">> -> monthsIt[ParseInt(SubSeq(call.date, 6, 7))]
      [] token = <<"M","M","M">> -> SubSeq(months[ParseInt(SubSeq(call.date, 6, 7))], 1, 3)
      [] token = <<"M","M">> -> SubSeq(call.date, 6, 7)
      [] token = <<"d","d","d","d">> -> days[DateFields(call.date).day + 1]
      [] token = <<"D","D">> -> SubSeq(call.date, 9, 10)
      [] token = <<"H","H">> -> SubSeq(call.date, 12, 13)
      [] token = <<"m","m">> -> SubSeq(call.date, 15, 16)
      [] token = <<"s","s">> -> SubSeq(call.date, 18, 19)

\* C15: every token of a pattern of distinct tokens renders as its own
\* field, whatever the fields before it rendered as; of a token written
\* twice only the first is replaced; YYYY-MM-DD renders as the year, the
\* two-digit month and the two-digit day, digits and hyphens only
C15_TokenPrecedence ==
    call.op = "formatted"
        => /\ (\A i, j \in DOMAIN call.tokens : call.tokens[i] = call.tokens[j] => i = j)
                => call.out = Join([i \in DOMAIN call.tokens |-> FieldText(call.tokens[i])],
                                   <<"-">>)
           /\ (/\ Len(call.tokens) = 2
               /\ call.tokens[1] = call.tokens[2]
               /\ call.tokens[1] \notin {<<"M","M","M","M">>, <<"M","M","M">>})
                => call.out = FieldText(call.tokens[1]) \o <<"-">> \o call.tokens[2]
           /\ call.tokens = IsoTokens
                => /\ call.out = SubSeq(call.date, 1, 10)
                   /\ \A i \in DOMAIN call.out : call.out[i] \in Digits \cup {"-"}

\* C15 happens: MM-MMMM of a date in September renders 09-settembre
C15_TokenPrecedenceReached ==
    /\ call.op = "formatted"
    /\ call.tokens = <<<<"M","M">>, <<"M","M","M","M">>>>
    /\ call.out = <<"0","9","-","s","e","t","t","e","m","b","r","e">>

\* ------------------------------------------------------------------------
\* processHighlights called on its own (AggregateSpec)
\* ------------------------------------------------------------------------

\* the most raw highlights handed to processHighlights
MaxRawHighlights == 3

\* the raw highlights: the rows of BookmarkPool and a row with an empty
\* text and an annotation of spaces
RawHighlights ==
    {BookmarkPool[i] : i \in DOMAIN BookmarkPool}
        \cup {[BookmarkID |-> <<"h","7">>, VolumeID |-> <<"b","7">>,
               ContentID |-> Null, Text |-> Str(<<>>), Annotation |-> Str(<<" "," ">>),
               DateCreated |-> Null, DateModified |-> Null, ChapterProgress |-> 3]}

\* sequences of distinct raw highlights, in every order
RECURSIVE RawLists(_)
RawLists(n) ==
    IF n = 0 THEN {<<>>}
    ELSE RawLists(n - 1)
            \cup {Append(l, b) : l \in {u \in RawLists(n - 1) : Len(u) = n - 1},
                                 b \in RawHighlights}

AggregateInit ==
    /\ db = NoBookmarks
    /\ settings = DefaultSettings(TRUE)
    /\ Quiescent
    /\ \E bookmarks \in {l \in RawLists(MaxRawHighlights) :
                            \A i, j \in DOMAIN l : l[i] = l[j] => i = j},
          content \in {<<>>, ContentTable} :
         call = [op |-> "start", bookmarks |-> bookmarks, content |-> content,
                 books |-> <<>>]

\* processHighlights(bookmarks, contentIndex)
Aggregate ==
    /\ call.op = "start"
    /\ call' = [call EXCEPT !.op = "aggregated",
                    !.books = processHighlights(call.bookmarks, call.content, Clock(1))]
    /\ UNCHANGED runVars

AggregateNext == Aggregate

AggregateSpec == AggregateInit /\ [][AggregateNext]_vars

\* a nullable string that is null or holds white space only
Blank(value) ==
    value = Null \/ \A i \in DOMAIN value.v : value.v[i] \in WhiteSpace

\* the raw highlight has neither text nor annotation
Empty(bookmark) ==
    Blank(bookmark.Text) /\ bookmark.Annotation \in {Null, Str(<<>>)}

\* the positions of the output: [book, at] with at within the book's sequence
Placed ==
    {h \in [book : DOMAIN call.books, at : 1..MaxRawHighlights] :
        h.at <= Len(call.books[h.book].highlights)}

\* C16: a raw highlight is dropped iff its normalized text and its
\* annotation are both empty, every other one appears exactly once in the
\* output, and every output highlight has a text
C16_FilteringPolicy ==
    call.op = "aggregated"
        => /\ \A i \in DOMAIN call.bookmarks :
                Cardinality({h \in Placed :
                    call.books[h.book].highlights[h.at].bookmarkId
                        = call.bookmarks[i].BookmarkID})
                    = (IF Empty(call.bookmarks[i]) THEN 0 ELSE 1)
           /\ \A h \in Placed :
                /\ call.books[h.book].highlights[h.at].text # <<>>
                /\ \E i \in DOMAIN call.bookmarks :
                        call.bookmarks[i].BookmarkID
                            = call.books[h.book].highlights[h.at].bookmarkId

\* C16 happens: of an annotation without text, a text of spaces and a
\* highlight, the first is kept under the placeholder text and the second
\* is dropped
C16_FilteringPolicyReached ==
    /\ call.op = "aggregated"
    /\ Len(call.bookmarks) = 3
    /\ call.bookmarks[1].BookmarkID = <<"h","4">>
    /\ call.bookmarks[2].BookmarkID = <<"h","5">>
    /\ call.bookmarks[3].BookmarkID = <<"h","1">>
    /\ Cardinality(Placed) = 2
    /\ \E h \in Placed :
         /\ call.books[h.book].highlights[h.at].bookmarkId = <<"h","4">>
         /\ call.books[h.book].highlights[h.at].text
                = <<"P","l","a","c","e","h","o","l","d","e","r"," ","f","o","r"," ","a","t","t","a","c","h","e","d"," ","a","n","n","o","t","a","t","i","o","n">>

\* the positions of the retained raw highlights of a volume, ascending
RetainedOf(volumeId) ==
    SelectSeq([i \in DOMAIN call.bookmarks |-> i],
              LAMBDA i : call.bookmarks[i].VolumeID = volumeId
                         /\ ~Empty(call.bookmarks[i]))

\* C17: the output holds exactly one book per owning volume of a retained
\* raw highlight, and the highlights of a book are the retained raw
\* highlights of its volume, in input order
C17_Grouping ==
    call.op = "aggregated"
        => /\ {call.books[k].book.contentId : k \in DOMAIN call.books}
                = {call.bookmarks[i].VolumeID :
                      i \in {j \in DOMAIN call.bookmarks : ~Empty(call.bookmarks[j])}}
           /\ \A k, l \in DOMAIN call.books :
                call.books[k].book.contentId = call.books[l].book.contentId => k = l
           /\ \A k \in DOMAIN call.books :
                [i \in DOMAIN call.books[k].highlights |->
                    call.books[k].highlights[i].bookmarkId]
                  = [i \in DOMAIN RetainedOf(call.books[k].book.contentId) |->
                        call.bookmarks[RetainedOf(call.books[k].book.contentId)[i]].BookmarkID]

\* C17 happens: two highlights of one volume with a highlight of another
\* volume between them come out as two books, the two together and in
\* input order
C17_GroupingReached ==
    /\ call.op = "aggregated"
    /\ Len(call.bookmarks) = 3
    /\ call.bookmarks[1].BookmarkID = <<"h","2">>
    /\ call.bookmarks[2].BookmarkID = <<"h","4">>
    /\ call.bookmarks[3].BookmarkID = <<"h","1">>
    /\ Len(call.books) = 2
    /\ \E k \in DOMAIN call.books :
         /\ Len(call.books[k].highlights) = 2
         /\ call.books[k].highlights[1].bookmarkId = <<"h","2">>
         /\ call.books[k].highlights[2].bookmarkId = <<"h","1">>

\* ------------------------------------------------------------------------
\* generateFilename called on its own (FilenameSpec)
\* ------------------------------------------------------------------------

\* the length of the long word of a title
LongWordLen == 99

\* the words and the separators titles are made of
FirstWords ==
    {<<>>, <<"M","y">>, <<" ","M","y">>, [i \in 1..LongWordLen |-> "X"]}

Separators ==
    {<<>>, <<" ">>, <<":"," ">>, <<"/">>, <<" ","/"," ">>, <<" "," ">>, <<"\t","\n">>, <<"?">>, <<"<",">">>, <<"\\","|","*","\"">>}

LastWords ==
    {<<"B","o","o","k">>, <<"B","o","o","k"," ">>, <<"B","o","o","k","/","T","i","t","l","e">>}

Titles ==
    {first \o sep \o last : first \in FirstWords, sep \in Separators, last \in LastWords}

\* filename templates: the default, one with text after the title, and one
\* with a variable the context does not hold
FileNameTemplates ==
    {<<"{","{","t","i","t","l","e","}","}">>, <<"{","{","t","i","t","l","e","}","}"," ","n","o","t","e","s">>, <<"{","{","a","u","t","h","o","r","}","}","{","{","t","i","t","l","e","}","}">>}

FilenameInit ==
    /\ db = NoBookmarks
    /\ settings = DefaultSettings(TRUE)
    /\ Quiescent
    /\ \E title \in Titles, template \in FileNameTemplates :
         call = [op |-> "start", title |-> title, template |-> template, out |-> <<>>]

\* generateFilename(title, settings)
GenerateFilename ==
    /\ call.op = "start"
    /\ call' = [call EXCEPT !.op = "named",
                    !.out = generateFilename(call.title,
                                [settings EXCEPT !.fileNameTemplate = call.template])]
    /\ UNCHANGED runVars

FilenameNext == GenerateFilename

FilenameSpec == FilenameInit /\ [][FilenameNext]_vars

\* the characters a filename may not hold
IllegalChars == {"<", ">", ":", "\"", "/", "\\", "|", "?", "*"}

\* the template rendered against the title alone
RenderedName ==
    call.title \o (IF call.template = <<"{","{","t","i","t","l","e","}","}"," ","n","o","t","e","s">> THEN <<" ","n","o","t","e","s">> ELSE <<>>)

\* the characters of a text that are neither illegal nor white space
Kept(text) == SelectSeq(text, LAMBDA c : c \notin IllegalChars \cup WhiteSpace)

\* the filename is as derived: no illegal character, white space only as
\* single spaces between other characters (or cut by the truncation), at
\* most 100 characters, and the remaining characters those of the rendered
\* template, all of them unless truncated
Derived ==
    /\ \A i \in DOMAIN call.out :
         /\ call.out[i] \notin IllegalChars
         /\ call.out[i] \in WhiteSpace
                => /\ call.out[i] = " "
                   /\ i > 1
                   /\ call.out[i - 1] \notin WhiteSpace
                   /\ i < Len(call.out) \/ Len(call.out) = FilenameMaxLength
    /\ Len(call.out) <= FilenameMaxLength
    /\ Kept(call.out) = SubSeq(Kept(RenderedName), 1, Len(Kept(call.out)))
    /\ Len(call.out) < FilenameMaxLength => Kept(call.out) = Kept(RenderedName)
    /\ \A i \in 1..(Len(call.out) - 1) :
         call.out[i + 1] = " "
            => \E j \in 1..(Len(RenderedName) - 1) :
                  /\ RenderedName[j] = call.out[i]
                  /\ RenderedName[j + 1] \in WhiteSpace \cup IllegalChars

\* C18 as stated: the filename is as derived, and for the title
\* My: Book/Title and the template {{title}} it is My Book Title
C18_FilenameAsStated ==
    call.op = "named"
        => /\ Derived
           /\ (call.title = <<"M","y",":"," ","B","o","o","k","/","T","i","t","l","e">> /\ call.template = <<"{","{","t","i","t","l","e","}","}">>)
                => call.out = <<"M","y"," ","B","o","o","k"," ","T","i","t","l","e">>

\* C18, amended: the filename is as derived, and for the title
\* My: Book/Title and the template {{title}} it is My BookTitle
C18_Filename ==
    call.op = "named"
        => /\ Derived
           /\ (call.title = <<"M","y",":"," ","B","o","o","k","/","T","i","t","l","e">> /\ call.template = <<"{","{","t","i","t","l","e","}","}">>)
                => call.out = <<"M","y"," ","B","o","o","k","T","i","t","l","e">>

\* C18 happens: the title My: Book/Title has been named under {{title}}
C18_FilenameReached ==
    /\ call.op = "named"
    /\ call.title = <<"M","y",":"," ","B","o","o","k","/","T","i","t","l","e">>
    /\ call.template = <<"{","{","t","i","t","l","e","}","}">>
    /\ call.out # <<>>

\* ------------------------------------------------------------------------
\* Properties of the storage calls of the import run (Spec)
\* ------------------------------------------------------------------------

\* the title of the book at an index of this run's book list
TitleAt(index) == booksWithHighlights[index].book.title

\* C19: at most one storage call is in flight; the call for a book begins
\* only when the calls for all books before it have returned; and the books
\* are handled in list order, which is ascending title order
C19_SequentialWrites ==
    /\ Len(pending) <= 1
    /\ \A i \in DOMAIN pending : pending[i].index = Len(handled) + i
    /\ \A i \in DOMAIN handled : handled[i].index = i
    /\ \A i \in 1..(Len(handled) + Len(pending) - 1) :
            ~LocaleLess(TitleAt(i + 1), TitleAt(i))

\* C19 happens: the call for the second book is in flight after the call
\* for the first has returned, and the second title sorts after the first
C19_SequentialWritesReached ==
    /\ pc = "storage"
    /\ Len(handled) = 1
    /\ Len(pending) = 1
    /\ pending[1].index = 2
    /\ LocaleLess(TitleAt(1), TitleAt(2))

\* the last content a returned storage call of this run wrote to a path
LastWritten(path) ==
    handled[Max({i \in DOMAIN handled : handled[i].wrote /\ handled[i].path = path})].content

\* C20: when a storage call fails while book k is handled, the run is in
\* the error state with one message shown, only the books before k have
\* been handled, no other note has been created or modified, and every
\* note written for them holds what this run wrote
C20_FatalNoRollback ==
    (pc = "error" /\ notice = "Storage failure")
        => /\ reports = 1
           /\ pending = <<>>
           /\ Len(handled) = bookIndex - 1
           /\ written = {handled[i].path : i \in {j \in DOMAIN handled : handled[j].wrote}}
           /\ \A path \in written :
                path \in DOMAIN vault /\ vault[path] = LastWritten(path)

\* C20 happens: the storage call for the second of two books has failed
\* after the note of the first was written
C20_FatalNoRollbackReached ==
    /\ pc = "error"
    /\ notice = "Storage failure"
    /\ Len(booksWithHighlights) = 2
    /\ bookIndex = 2
    /\ Len(handled) = 1
    /\ handled[1].wrote

\* C21: with a database of zero highlights a started run ends in the error
\* state once the count is read, the output folder is not created, and no
\* note is created or modified
C21_ZeroContentFatal ==
    (Len(db.Bookmark) = 0 /\ runs >= 1)
        => /\ pc \in {"opening", "error"}
           /\ pc = "error" => notice = "No highlights found in the database."
           /\ ~folderExists
           /\ written = {}
           /\ vault = <<>>
           /\ handled = <<>>
           /\ pending = <<>>

\* C21 happens: a second run over a database of zero highlights has ended
\* in the error state
C21_ZeroContentFatalReached ==
    /\ Len(db.Bookmark) = 0
    /\ runs = 2
    /\ pc = "error"
    /\ reports = 1

\* ------------------------------------------------------------------------
\* openDatabase called by import runs that overlap (EngineSpec)
\* ------------------------------------------------------------------------

\* the most import runs that call openDatabase, and the most calls of each
MaxCallers == 3

MaxOpens == 2

\* the file initSqlJs asks locateFile for
WasmFile == <<"s","q","l","-","w","a","s","m",".","w","a","s","m">>

\* the locateFile option initSQL hands to initSqlJs
locateFile(file) == <<"h","t","t","p","s",":","/","/","s","q","l",".","j","s",".","o","r","g","/","d","i","s","t","/">> \o file

\* the module variable SQL is null (0), no call of initSqlJs has been made,
\* and no run is inside openDatabase
EngineInit ==
    /\ db = NoBookmarks
    /\ settings = DefaultSettings(TRUE)
    /\ Quiescent
    /\ call = [op |-> "engine", SQL |-> 0, inits |-> 0, requests |-> {},
               used |-> {},
               callers |-> [c \in 1..MaxCallers |->
                               [at |-> "idle", sql |-> 0, opened |-> 0]]]

\* openDatabase calls initSQL, which runs up to its first await: the cached
\* instance is returned, or initSqlJs is invoked and loads the file that
\* locateFile names
CallInitSQL(c) ==
    /\ call.callers[c].at = "idle"
    /\ call.callers[c].opened < MaxOpens
    /\ call' = IF call.SQL # 0
               THEN [call EXCEPT !.callers[c].at = "returned",
                                 !.callers[c].sql = call.SQL]
               ELSE [call EXCEPT !.callers[c].at = "loading",
                                 !.inits = @ + 1,
                                 !.requests = @ \cup {locateFile(WasmFile)}]
    /\ UNCHANGED runVars

\* the promise of initSqlJs resolves: SQL = await initSqlJs(...); return SQL
InitSqlJsResolves(c) ==
    /\ call.callers[c].at = "loading"
    /\ \E instance \in 1..call.inits :
         /\ instance \notin {call.SQL} \cup {call.callers[d].sql : d \in 1..MaxCallers}
                                       \cup call.used
         /\ \A other \in 1..(instance - 1) :
                other \in {call.SQL} \cup {call.callers[d].sql : d \in 1..MaxCallers}
                                     \cup call.used
         /\ call' = [call EXCEPT !.SQL = instance,
                                 !.callers[c].at = "returned",
                                 !.callers[c].sql = instance]
    /\ UNCHANGED runVars

\* openDatabase resumes: new sql.Database(...)
NewDatabase(c) ==
    /\ call.callers[c].at = "returned"
    /\ call' = [call EXCEPT !.used = @ \cup {call.callers[c].sql},
                            !.callers[c].at = "idle",
                            !.callers[c].sql = 0,
                            !.callers[c].opened = @ + 1]
    /\ UNCHANGED runVars

EngineNext ==
    \E c \in 1..MaxCallers :
        \/ CallInitSQL(c)
        \/ InitSqlJsResolves(c)
        \/ NewDatabase(c)

EngineSpec == EngineInit /\ [][EngineNext]_vars

\* C22: initSqlJs is invoked at most once, and every database is made from
\* the one instance
C22_SingleInitialization ==
    call.inits <= 1 /\ Cardinality(call.used) <= 1

\* the location is outside the local bundle
External(location) ==
    \/ MatchAt(location, 1, <<"h","t","t","p","s",":","/","/">>)
    \/ MatchAt(location, 1, <<"h","t","t","p",":","/","/">>)

\* C23: no file is requested from an external network location
C23_NoExternalRequest ==
    \A location \in call.requests : ~External(location)

\* the chapter table entry of the book at an index of this run's book list
ChapterDataAt(index) ==
    MapGet(allChapterData, booksWithHighlights[index].book.contentId)

\* what appendHighlightsToNote reports for a handled book and the note it
\* found
ReportedFor(entry) ==
    appendHighlightsToNote(entry.before.v, booksWithHighlights[entry.index],
                           settings, ChapterDataAt(entry.index),
                           Clock(runs)).newHighlightsCount

\* the count that appendHighlightsToNote reported decides whether the note
\* was written
WrittenIffReported(entry, reported) ==
    /\ entry.newHighlights = reported
    /\ entry.path \in written <=> reported > 0
    /\ reported = 0 => vault[entry.path] = entry.before.v

\* C24: in append mode, the note of a book that already existed is modified
\* iff appendHighlightsToNote reported a count above 0, and is left as it
\* was when the count is 0
C24_WriteOnlyWhenNew ==
    \A i \in DOMAIN handled :
        (settings.appendToExisting /\ handled[i].before # Null)
            => WrittenIffReported(handled[i], ReportedFor(handled[i]))

\* C24 happens: in append mode a book whose note existed has been handled
\* with nothing new, and its note was not written
C24_WriteOnlyWhenNewReached ==
    /\ settings.appendToExisting
    /\ Len(handled) = 1
    /\ handled[1].before # Null
    /\ handled[1].newHighlights = 0
    /\ written = {}

\* the full note of a handled book, as generateNewNote makes it
FullNoteFor(entry) ==
    generateNewNote(booksWithHighlights[entry.index], settings,
                    ChapterDataAt(entry.index), Clock(runs))

\* the branch taken for a handled book, told from the note it found and the
\* mode: the note is kept and appended to, or it is replaced by the full
\* note, or it is created with the full note
BranchTaken(entry, fullNote) ==
    IF entry.before # Null /\ settings.appendToExisting
    THEN /\ ~entry.isNew
         /\ SubSeq(entry.content, 1, Len(entry.before.v)) = entry.before.v
    ELSE /\ entry.isNew <=> entry.before = Null
         /\ entry.wrote
         /\ entry.content = fullNote
         /\ entry.newHighlights = Len(booksWithHighlights[entry.index].highlights)

\* C25: an existing note is appended to in append mode and replaced by the
\* full note otherwise, with every highlight counted as new; a missing note
\* is created with the full note and counted as a new book
C25_ModeSelection ==
    /\ \A i \in DOMAIN handled : BranchTaken(handled[i], FullNoteFor(handled[i]))
    /\ \A i \in DOMAIN handled :
            handled[i].wrote
                => /\ handled[i].path \in DOMAIN vault
                   /\ vault[handled[i].path] = handled[i].content
    /\ pc \in {"books", "storage", "done"}
            => newBooks = Cardinality({i \in DOMAIN handled : handled[i].isNew})

\* C25 happens: with appendToExisting off, a second run has replaced an
\* existing note by the full note
C25_ModeSelectionReached ==
    /\ ~settings.appendToExisting
    /\ runs = 2
    /\ Len(handled) >= 1
    /\ handled[1].before # Null
    /\ handled[1].wrote
    /\ ~handled[1].isNew

\* ------------------------------------------------------------------------
\* extractExistingHighlights called on its own (ExtractSpec)
\* ------------------------------------------------------------------------

\* the most lines of a note
MaxNoteLines == 2

\* the lines notes are made of: quotes of 9, 10 and 11 characters, a quote
\* without the space, a padded quote, a line of text, an empty quote, an
\* empty line, an indented quote and a short quote
NoteLines ==
    {<<">"," ","0","1","2","3","4","5","6","7","8">>,
     <<">"," ","0","1","2","3","4","5","6","7","8","9">>,
     <<">"," ","0","1","2","3","4","5","6","7","8","9","a">>,
     <<">","0","1","2","3","4","5","6","7","8","9","a","b">>,
     <<">"," "," ","P","a","d","d","e","d"," "," ","T","E","X","T"," ","h","e","r","e"," "," ">>,
     <<"p","l","a","i","n"," ","t","e","x","t"," ","l","i","n","e">>,
     <<">">>,
     <<>>,
     <<" ",">"," ","i","n","d","e","n","t","e","d"," ","q","u","o","t","e"," ","l","i","n","e">>,
     <<">"," ","S","h","o","r","t">>}

RECURSIVE LineLists(_)
LineLists(n) ==
    IF n = 0 THEN {<<>>}
    ELSE LineLists(n - 1)
            \cup {Append(l, line) : l \in {u \in LineLists(n - 1) : Len(u) = n - 1},
                                    line \in NoteLines}

ExtractInit ==
    /\ db = NoBookmarks
    /\ settings = DefaultSettings(TRUE)
    /\ Quiescent
    /\ \E lines \in LineLists(MaxNoteLines) \ {<<>>} :
         call = [op |-> "start", lines |-> lines, hashes |-> {}]

\* extractExistingHighlights(content), the content being the lines joined
\* by line feeds
Extract ==
    /\ call.op = "start"
    /\ call' = [call EXCEPT !.op = "extracted",
                    !.hashes = extractExistingHighlights(Join(call.lines, <<"\n">>))]
    /\ UNCHANGED runVars

ExtractNext == Extract

ExtractSpec == ExtractInit /\ [][ExtractNext]_vars

\* the line begins with > and a space
QuoteLine(line) == Len(line) >= 2 /\ line[1] = ">" /\ line[2] = " "

\* the text of a quote line: what follows the prefix, without the white
\* space at its ends
QuoteText(line) == trim(SubSeq(line, 3, Len(line)))

\* the fingerprint of a text, from its normal form
FingerprintOf(text) ==
    (IF Normal(text) = <<>> THEN <<"e","m","p","t","y">>
     ELSE FirstChars(Normal(text), 50))
        \o <<"_">> \o IntToStr(Len(Normal(text)))

\* C26: every line of the note that begins with > and a space and whose
\* text has 10 or more characters contributes the fingerprint of its text
C26_ExtractionThreshold ==
    call.op = "extracted"
        => \A i \in DOMAIN call.lines :
                (QuoteLine(call.lines[i]) /\ Len(QuoteText(call.lines[i])) >= 10)
                    => FingerprintOf(QuoteText(call.lines[i])) \in call.hashes

\* C27: a run that opened the database has closed it exactly once when it
\* has ended, by completion or by any error; the database is open and not
\* yet closed while the run goes on; and no query is made after the close
C27_HandleLifecycle ==
    /\ (pc \in {"done", "error"} /\ dbHandle.opens = 1)
            => (~dbHandle.open /\ dbHandle.closes = 1)
    /\ pc \in {"folder", "books", "storage"}
            => (dbHandle.open /\ dbHandle.opens = 1 /\ dbHandle.closes = 0)
    /\ dbHandle.closes <= dbHandle.opens
    /\ dbHandle.late = 0

\* C27 happens: a run has ended on the failure of the output folder with
\* its database closed once
C27_HandleLifecycleReached ==
    /\ pc = "error"
    /\ notice = "Folder failure"
    /\ dbHandle.opens = 1
    /\ dbHandle.closes = 1

\* ------------------------------------------------------------------------
\* Import runs over books that share a title
\* ------------------------------------------------------------------------

\* rows the Bookmark table is filled from: a highlight of A.epub, whose
\* Content row gives the title Alpha, an annotation of the volume b7, and
\* highlights of two files named Alpha that have no Content row
ClashPool ==
    <<BookmarkPool[1], BookmarkPool[4],
      [BookmarkID |-> <<"h","7">>, VolumeID |-> <<"f","i","l","e",":","/","/","/","x","/","A","l","p","h","a",".","e","p","u","b">>,
       ContentID |-> Null,
       Text |-> Str(<<"A"," ","l","i","n","e"," ","o","f"," ","t","h","e"," ","s","e","c","o","n","d"," ","v","o","l","u","m","e">>),
       Annotation |-> Null, DateCreated |-> Str(<<"2","0","2","4","-","0","1","-","1","5","T","1","0",":","3","0",":","0","0",".","0","0","0","Z">>),
       DateModified |-> Null, ChapterProgress |-> 0],
      [BookmarkID |-> <<"h","8">>, VolumeID |-> <<"f","i","l","e",":","/","/","/","y","/","A","l","p","h","a",".","p","d","f">>,
       ContentID |-> Null,
       Text |-> Str(<<"A"," ","l","i","n","e"," ","o","f"," ","t","h","e"," ","t","h","i","r","d"," ","v","o","l","u","m","e">>),
       Annotation |-> Null, DateCreated |-> Str(<<"2","0","2","4","-","0","1","-","1","5","T","1","0",":","3","0",":","0","0",".","0","0","0","Z">>),
       DateModified |-> Null, ChapterProgress |-> 0]>>

ClashRows(rows) ==
    LET idx == SelectSeq([i \in 1..Len(ClashPool) |-> i], LAMBDA i : i \in rows)
    IN  [k \in 1..Len(idx) |-> ClashPool[idx[k]]]

ClashDatabases ==
    {[Bookmark |-> ClashRows(rows), Content |-> ContentTable] :
        rows \in {R \in SUBSET (1..Len(ClashPool)) : Cardinality(R) <= MaxBookmarks}}

ClashInit ==
    /\ db \in ClashDatabases
    /\ settings \in {DefaultSettings(a) : a \in BOOLEAN}
    /\ Quiescent
    /\ call = NoCall

ClashSpec == ClashInit /\ [][Next]_vars

\* the volume identifier of a handled book
VolumeAt(index) == booksWithHighlights[index].book.contentId

\* C28: two distinct books handled in a run never have the same note path
C28_OneNotePerBook ==
    \A i \in DOMAIN handled : \A j \in DOMAIN handled :
        VolumeAt(handled[i].index) # VolumeAt(handled[j].index)
            => handled[i].path # handled[j].path

\* ------------------------------------------------------------------------
\* appendHighlightsToNote on a note of quotes and one incoming highlight
\* ------------------------------------------------------------------------

\* the most quotes of the existing note
MaxQuotes == 1

\* the ends of the long texts: MaxTextLen letters
LossTails ==
    {t \in Texts(MaxTextLen) : Len(t) = MaxTextLen /\ Range(t) \cap WhiteSpace = {}}

\* the texts of quotes and highlights: texts longer than the prefix of the
\* fingerprint that differ after it, the text of an annotation without
\* text, and a short text
LossTexts ==
    {Filler \o <<" ">> \o t : t \in LossTails}
        \cup {<<"P","l","a","c","e","h","o","l","d","e","r"," ","f","o","r"," ","a","t","t","a","c","h","e","d"," ","a","n","n","o","t","a","t","i","o","n">>,
              <<"S","h","o","r","t">>}

QuoteLists ==
    UNION {[1..n -> LossTexts] : n \in 0..MaxQuotes}

\* a note that holds the quotes as blockquotes
RECURSIVE QuoteBlocks(_)
QuoteBlocks(quotes) ==
    IF quotes = <<>> THEN <<>>
    ELSE <<">", " ">> \o Head(quotes) \o <<"\n", "\n", "-", "-", "-", "\n">>
            \o QuoteBlocks(Tail(quotes))

NoteOfQuotes(quotes) ==
    <<"#"," ","A","l","p","h","a","\n","\n","#","#"," ","H","i","g","h","l","i","g","h","t","s","\n","\n">> \o QuoteBlocks(quotes)

\* the book A.epub with the first highlight of the database as its only
\* highlight, carrying the given text
LossBase ==
    CHOOSE b \in ProcessedBooks :
        /\ b.book.title = <<"A","l","p","h","a">>
        /\ Len(b.highlights) = 1
        /\ b.highlights[1].bookmarkId = <<"h","1">>

LossBook(text) ==
    [LossBase EXCEPT !.highlights = <<[LossBase.highlights[1] EXCEPT !.text = text]>>]

LossInit ==
    /\ db = NoBookmarks
    /\ settings = DefaultSettings(TRUE)
    /\ Quiescent
    /\ \E quotes \in QuoteLists, text \in LossTexts :
         call = [op |-> "start", quotes |-> quotes, text |-> text,
                 content |-> <<>>, newHighlightsCount |-> 0]

\* the note and the count, as returned by appendHighlightsToNote
AppendedOne(result) ==
    call' = [call EXCEPT !.op = "appended", !.content = result.content,
                         !.newHighlightsCount = result.newHighlightsCount]

\* appendHighlightsToNote(note of the quotes, book of the one highlight)
AppendOne ==
    /\ call.op = "start"
    /\ AppendedOne(appendHighlightsToNote(NoteOfQuotes(call.quotes),
                                        LossBook(call.text), settings,
                                        Undefined, Clock(1)))
    /\ UNCHANGED runVars

LossNext == AppendOne

LossSpec == LossInit /\ [][LossNext]_vars

\* C29: the incoming highlight is dropped only if the note holds a
\* blockquote whose normal text equals the normal text of the highlight;
\* otherwise it is appended
C29_NoHighlightLost ==
    call.op = "appended"
        => \/ \E i \in DOMAIN call.quotes :
                Normal(call.quotes[i]) = Normal(call.text)
           \/ /\ call.newHighlightsCount = 1
              /\ call.content # NoteOfQuotes(call.quotes)

\* the highlights of the books of the run
RECURSIVE HighlightsOf(_)
HighlightsOf(books) ==
    IF books = <<>> THEN 0
    ELSE Len(Head(books).highlights) + HighlightsOf(Tail(books))

\* C30: at the end of a completed run the new highlights counted are at
\* most the highlights of the processed books, which is the total counted,
\* and the notice that all highlights are already imported is shown iff no
\* note was created or modified during the run
C30_SummaryConsistent ==
    pc = "done"
        => /\ totalNewHighlights <= totalHighlightsInDb
           /\ totalHighlightsInDb = HighlightsOf(booksWithHighlights)
           /\ (notice = "All highlights are already imported. No changes made.")
                <=> (written = {})

\* C30 happens: a run over books with highlights has completed without
\* writing a note, and shows that all highlights are already imported
C30_SummaryConsistentReached ==
    /\ pc = "done"
    /\ totalHighlightsInDb > 0
    /\ totalNewHighlights = 0
    /\ written = {}
    /\ notice = "All highlights are already imported. No changes made."

====
